---- MODULE Spec2Model ----
(***************************************************************************)
(* A model of the analytics workers of habit_hatchery                      *)
(* (src/microservices/*.py): the streak worker's date parsing and streak   *)
(* algorithms, the serve loops of the four workers, and handle_message of  *)
(* the activity, trend and progress workers as a function of the request.  *)
(*                                                                         *)
(* Calendar days are proleptic Gregorian ordinals, as datetime.date keeps  *)
(* them: 0001-01-01 is day 1 and 9999-12-31 is day 3652059.  Stepping a    *)
(* date outside that range raises OverflowError, as timedelta arithmetic   *)
(* does.                                                                   *)
(***************************************************************************)
EXTENDS Integers, Sequences, FiniteSets, TLC

VARIABLES
    \* ---- streak worker, process_request as a pure function ----
    s_pc,         \* "received" (payload in hand) | "replied"
    s_payload,    \* the decoded JSON payload handed to process_request
    s_today,      \* date.today() of the worker's clock
    s_response,   \* outcome of process_request on s_payload
    s_current,    \* outcome of calculate_current_streak on the parsed dates
    s_longest,    \* outcome of calculate_longest_streak on the parsed dates
    s_prev,       \* outcome for the previous payload with the same date set
    \* ---- one worker process and its serve loop ----
    worker,       \* which worker this process is
    pc,           \* where its loop thread stands
    cur_req,      \* the request in hand: [n, msg]
    reply,        \* the reply computed for it: [n, body]
    log,          \* what went through the socket: recv and send events
    raised,       \* the exception that left the serve loop, "" if none
    exit_cause,   \* why the loop ended, "" while it runs
    stop_flag,    \* streak worker: stop_flag[0]
    lpc,          \* streak worker: the console listener thread
    flag_writes,  \* streak worker: who assigned stop_flag[0], in order
    kbd,          \* trend worker: the console input and sys.stdin's buffer
    \* ---- handle_message of the activity, trend and progress workers ----
    h_worker,     \* whose handle_message is called
    h_pc,         \* "received" (request in hand) | "validated" | "replied"
    h_request,    \* the decoded JSON body handed to the handler
    h_reply,      \* outcome of handle_message on h_request
    h_prev,       \* outcome for the request this one was derived from
    \* ---- the client: calls of microservice_clients ----
    c_entry,      \* the function the application called
    c_pc,         \* where that call stands
    c_has_data,   \* whether the date strings / items to send are non-empty
    c_socket,     \* the call's socket: "none" | "open" | "closed"
    c_wire,       \* what the call's socket sent and received, in order
    c_outcome,    \* what the network did: "" | "reply" | "timeout"
    c_result,     \* <<response, error>> returned by _send_json / _send_bytes
    c_overview,   \* <<response, error>> returned by the *_overview function
    c_snapshot,   \* gather_microservice_snapshot: the snapshot dict
    c_called,     \* gather_microservice_snapshot: workers called so far
    c_raised,     \* the exception that left the function, "" if none
    c_calls       \* how many functions the application has called

streakVars ==
    <<s_pc, s_payload, s_today, s_response, s_current, s_longest, s_prev>>

serveVars ==
    <<worker, pc, cur_req, reply, log, raised, exit_cause, stop_flag, lpc, flag_writes,
      kbd>>

handlerVars == <<h_worker, h_pc, h_request, h_reply, h_prev>>

clientVars ==
    <<c_entry, c_pc, c_has_data, c_socket, c_wire, c_outcome, c_result, c_overview,
      c_snapshot, c_called, c_raised, c_calls>>

vars == <<streakVars, serveVars, handlerVars, clientVars>>

\* ------------------------------------------------------------------ bounds

\* Longest 'dates' list of a request.
MaxDates == 3

\* Requests one worker process receives in a run.
MaxRequests == 2

\* Longest 'items' list of an activity or trend request.
MaxItems == 3

\* Longest 'goals' list of a progress request.
MaxGoals == 2

\* ------------------------------------------------------------- outcomes

\* No request in hand, no reply computed.
NoMsg == [n |-> 0]
NoReply == [n |-> 0]

\* No console is watched.
NoKbd == [platform |-> "none", console |-> <<>>, stdin_buffer |-> <<>>, typed |-> 0]

\* The serve-loop variables while only process_request is exercised.
ServeUnused ==
    /\ worker = "none"
    /\ pc = "off"
    /\ cur_req = NoMsg
    /\ reply = NoReply
    /\ log = <<>>
    /\ raised = ""
    /\ exit_cause = ""
    /\ stop_flag = FALSE
    /\ lpc = "off"
    /\ flag_writes = <<>>
    /\ kbd = NoKbd

None == [t |-> "null"]

\* No handler call is part of this run.
HandlerUnused ==
    /\ h_worker = "none"
    /\ h_pc = "off"
    /\ h_request = None
    /\ h_reply = [exc |-> "unset"]
    /\ h_prev = [exc |-> "unset"]

\* The client makes no call in this run.
ClientUnused ==
    /\ c_entry = "none"
    /\ c_pc = "off"
    /\ c_has_data = FALSE
    /\ c_socket = "none"
    /\ c_wire = <<>>
    /\ c_outcome = ""
    /\ c_result = <<>>
    /\ c_overview = <<>>
    /\ c_snapshot = <<>>
    /\ c_called = {}
    /\ c_raised = ""
    /\ c_calls = 0

\* A call either returns a value or raises.
Ret(v) == [exc |-> "none", val |-> v]
Raise(e) == [exc |-> e]
IsRaise(r) == r.exc # "none"

\* ---------------------------------------------------------- JSON values

JStr(text) == [t |-> "str", v |-> text]
JNum(n) == [t |-> "num", v |-> n]
JList(seq) == [t |-> "list", v |-> seq]
JObj(rec) == [t |-> "obj", o |-> rec]

\* A Python str is modelled by its layout and the numbers written in it:
\* "2024-01-02" is [fmt |-> "%Y-%m-%d", y |-> 2024, m |-> 1, d |-> 2] and
\* ws says whether whitespace surrounds it.  Any other text is Plain.
Plain(s) == [fmt |-> "plain", s |-> s]
DateText(fmt, y, m, d, ws) == [fmt |-> fmt, y |-> y, m |-> m, d |-> d, ws |-> ws]

\* An ISO date-time such as "2024-03-03T10:30:00"; the time of day is a
\* valid one and plays no part.
DateTimeText(y, m, d) == DateText("%Y-%m-%dT%H:%M:%S", y, m, d, FALSE)

\* ------------------------------------------------------------- calendar

\* datetime.date.min.toordinal() and datetime.date.max.toordinal()
MinOrdinal == 1
MaxOrdinal == 3652059

IsLeap(y) == (y % 4 = 0) /\ ((y % 100 # 0) \/ (y % 400 = 0))

DaysInMonth(y, m) ==
    IF m = 2 THEN (IF IsLeap(y) THEN 29 ELSE 28)
    ELSE IF m \in {4, 6, 9, 11} THEN 30 ELSE 31

DaysBeforeYear(y) ==
    (y - 1) * 365 + ((y - 1) \div 4) - ((y - 1) \div 100) + ((y - 1) \div 400)

RECURSIVE DaysBeforeMonth(_, _)
DaysBeforeMonth(y, m) ==
    IF m = 1 THEN 0 ELSE DaysBeforeMonth(y, m - 1) + DaysInMonth(y, m - 1)

\* date(y, m, d).toordinal()
ToOrdinal(y, m, d) == DaysBeforeYear(y) + DaysBeforeMonth(y, m) + d

\* The fields strptime accepts as a calendar day.
ValidYMD(y, m, d) ==
    /\ y \in 1..9999
    /\ m \in 1..12
    /\ d \in 1..DaysInMonth(y, m)

\* d + timedelta(days=n): OverflowError outside date.min..date.max
DateAdd(d, n) ==
    IF d + n < MinOrdinal \/ d + n > MaxOrdinal
    THEN Raise("OverflowError") ELSE Ret(d + n)

\* ------------------------------------------- streak worker: parsing

DATE_FORMATS == <<"%Y-%m-%d", "%m/%d/%Y", "%d-%b-%Y", "%b %d %Y">>

\* raw.strip()
Strip(text) ==
    IF text.fmt = "plain" THEN text ELSE [text EXCEPT !.ws = FALSE]

\* datetime.strptime(raw, fmt).date(): the text must be written in the
\* layout of fmt, with nothing around it, and name a real calendar day.
Strptime(text, fmt) ==
    IF /\ text.fmt = fmt
       /\ ~text.ws
       /\ ValidYMD(text.y, text.m, text.d)
    THEN Ret(ToOrdinal(text.y, text.m, text.d))
    ELSE Raise("ValueError")

RECURSIVE TryFormats(_, _)
TryFormats(raw, i) ==
    IF i > Len(DATE_FORMATS) THEN None
    ELSE LET r == Strptime(raw, DATE_FORMATS[i])
         IN  IF IsRaise(r) THEN TryFormats(raw, i + 1) ELSE JNum(r.val)

\* A parsed date is JNum(ordinal); None when every format fails.
parse_date_string(raw) == TryFormats(Strip(raw), 1)

SelectStr(seq) == SelectSeq(seq, LAMBDA value : value.t = "str")

\* Returns <<date_strings, error>>.
_extract_date_strings(payload) ==
    IF ~("dates" \in DOMAIN payload.o) \/ payload.o["dates"].t # "list"
    THEN <<(<<>>), "Request must contain a 'dates' array.">>
    ELSE <<SelectStr(payload.o["dates"].v), "">>

RECURSIVE _parse_dates(_)
_parse_dates(date_strings) ==
    IF date_strings = <<>> THEN <<>>
    ELSE LET parsed_date == parse_date_string(Head(date_strings).v)
             rest == _parse_dates(Tail(date_strings))
         IN  IF parsed_date # None THEN <<parsed_date.v>> \o rest ELSE rest

Range(seq) == {seq[i] : i \in DOMAIN seq}

\* ------------------------------------------ streak worker: algorithms

\* while curr + timedelta(days=1) in dates_set: curr += ...; length += 1
RECURSIVE CountForwardLoop(_, _, _)
CountForwardLoop(dates_set, curr, length) ==
    LET next == DateAdd(curr, 1)
    IN  IF IsRaise(next) THEN next
        ELSE IF next.val \in dates_set
             THEN CountForwardLoop(dates_set, next.val, length + 1)
             ELSE Ret(length)

_count_forward_streak(dates_set, start_date) ==
    CountForwardLoop(dates_set, start_date, 1)

\* LongestLoop with 'longest = count' in place of 'longest = max(longest, count)'.
RECURSIVE LongestLoopKeepsLast(_, _, _, _)
LongestLoopKeepsLast(dates_set, order, i, longest) ==
    IF i > Len(order) THEN Ret(longest)
    ELSE LET current_date == order[i]
             before == DateAdd(current_date, -1)
         IN  IF IsRaise(before) THEN before
             ELSE IF before.val \in dates_set
                  THEN LongestLoopKeepsLast(dates_set, order, i + 1, longest)
                  ELSE LET n == _count_forward_streak(dates_set, current_date)
                       IN  IF IsRaise(n) THEN n
                           ELSE LongestLoopKeepsLast(dates_set, order, i + 1, n.val)

\* One pass of 'for current_date in dates_set' per element of order, the
\* sequence in which the set hands out its members.
RECURSIVE LongestLoop(_, _, _, _)
LongestLoop(dates_set, order, i, longest) ==
    IF i > Len(order) THEN Ret(longest)
    ELSE LET current_date == order[i]
             before == DateAdd(current_date, -1)
         IN  IF IsRaise(before) THEN before
             ELSE IF before.val \in dates_set
                  THEN LongestLoop(dates_set, order, i + 1, longest)
                  ELSE LET n == _count_forward_streak(dates_set, current_date)
                       IN  IF IsRaise(n) THEN n
                           ELSE LongestLoop(dates_set, order, i + 1,
                                            IF n.val > longest THEN n.val ELSE longest)

\* dates is the list of parsed dates; order enumerates set(dates).
calculate_longest_streak(dates, order) ==
    IF dates = <<>> THEN Ret(0)
    ELSE LongestLoop(Range(dates), order, 1, 0)

\* while curr in dates_set: length += 1; curr -= timedelta(days=1)
RECURSIVE CountBackwardLoop(_, _, _)
CountBackwardLoop(dates_set, curr, length) ==
    IF curr \in dates_set
    THEN LET prior == DateAdd(curr, -1)
         IN  IF IsRaise(prior) THEN prior
             ELSE CountBackwardLoop(dates_set, prior.val, length + 1)
    ELSE Ret(length)

\* _count_backward_streak with length starting at 1, as the forward count does.
_count_backward_streak_from_one(dates_set, start_date) ==
    CountBackwardLoop(dates_set, start_date, 1)

_count_backward_streak(dates_set, start_date) ==
    CountBackwardLoop(dates_set, start_date, 0)

calculate_current_streak(dates, today) ==
    IF dates = <<>> THEN Ret(0)
    ELSE IF today \notin Range(dates) THEN Ret(0)
    ELSE LET yesterday == DateAdd(today, -1)
         IN  IF IsRaise(yesterday) THEN yesterday
             ELSE LET n == _count_backward_streak(Range(dates), yesterday.val)
                  IN  IF IsRaise(n) THEN n ELSE Ret(1 + n.val)

_error(message) == [ok |-> FALSE, error |-> message]

\* The reply, or the exception that leaves process_request.  The dict
\* literal evaluates current_streak before longest_streak.
process_request(payload, today, order) ==
    IF payload.t # "obj"
    THEN Ret(_error("Request must contain a 'dates' array."))
    ELSE LET extracted == _extract_date_strings(payload)
             parsed_dates == _parse_dates(extracted[1])
         IN  IF extracted[2] # "" THEN Ret(_error(extracted[2]))
             ELSE IF parsed_dates = <<>>
                  THEN Ret(_error("No valid dates provided."))
                  ELSE LET cur == calculate_current_streak(parsed_dates, today)
                           lng == calculate_longest_streak(parsed_dates, order)
                       IN  IF IsRaise(cur) THEN cur
                           ELSE IF IsRaise(lng) THEN lng
                           ELSE Ret([ok |-> TRUE,
                                     result |-> [current_streak |-> cur.val,
                                                 longest_streak |-> lng.val]])

\* The dates process_request computes on (empty when it rejects first).
ParsedDates(payload) ==
    IF payload.t # "obj" THEN <<>>
    ELSE _parse_dates(_extract_date_strings(payload)[1])

ParsedSet(payload) == Range(ParsedDates(payload))

\* --------------------------------- streak worker: requests and actions

\* What a caller may put in the 'dates' array: the days 2024-01-01 to
\* 2024-01-03 and 2024-01-05 in the accepted layouts (one padded with
\* blanks, two naming the same day), a day that does not exist, a
\* number, and the first and the last day datetime.date can hold.
StreakEntries ==
    { JStr(DateText("%Y-%m-%d", 2024, 1, 1, FALSE)),
      JStr(DateText("%d-%b-%Y", 2024, 1, 2, TRUE)),
      JStr(DateText("%Y-%m-%d", 2024, 1, 3, FALSE)),
      JStr(DateText("%m/%d/%Y", 2024, 1, 3, FALSE)),
      JStr(DateText("%m/%d/%Y", 2024, 1, 5, FALSE)),
      JStr(DateText("%Y-%m-%d", 2024, 2, 30, FALSE)),
      JNum(5),
      JStr(DateText("%Y-%m-%d", 1, 1, 1, FALSE)),
      JStr(DateText("%b %d %Y", 9999, 12, 31, FALSE)) }

DateLists == UNION {[1..n -> StreakEntries] : n \in 0..MaxDates}

\* Decoded payloads: an array instead of an object, an object without
\* 'dates', 'dates' holding a string, and 'dates' holding each list.
StreakPayloads ==
    { JList(<<>>),
      JObj([items |-> JList(<<>>)]),
      JObj([dates |-> JStr(DateText("%Y-%m-%d", 2024, 1, 1, FALSE))]) }
    \cup {JObj([dates |-> JList(l)]) : l \in DateLists}

\* The days the worker's clock may show.
Todays == {ToOrdinal(2024, 1, 2), ToOrdinal(2024, 1, 3)}

\* The orders in which a set can hand out the members of S.
Orders(S) == {o \in [1..Cardinality(S) -> S] : Range(o) = S}

NoResult == [exc |-> "unset"]

HasDateList(payload) ==
    /\ payload.t = "obj"
    /\ "dates" \in DOMAIN payload.o
    /\ payload.o["dates"].t = "list"

InitStreak ==
    /\ s_pc = "received"
    /\ s_payload \in StreakPayloads
    /\ s_today \in Todays
    /\ s_response = NoResult
    /\ s_current = NoResult
    /\ s_longest = NoResult
    /\ s_prev = NoResult
    /\ ServeUnused
    /\ HandlerUnused
    /\ ClientUnused

\* process_request runs on the payload in hand, the set handing out its
\* members in any order; the two streak functions are also recorded on
\* their own, applied to the parsed dates.
StreakProcess ==
    /\ s_pc = "received"
    /\ \E order \in Orders(ParsedSet(s_payload)) :
          /\ s_response' = process_request(s_payload, s_today, order)
          /\ s_longest' = calculate_longest_streak(ParsedDates(s_payload), order)
    /\ s_current' = calculate_current_streak(ParsedDates(s_payload), s_today)
    /\ s_pc' = "replied"
    /\ UNCHANGED <<s_payload, s_today, s_prev, serveVars, handlerVars, clientVars>>

Swap(seq, i) ==
    [k \in DOMAIN seq |->
        IF k = i THEN seq[i + 1] ELSE IF k = i + 1 THEN seq[i] ELSE seq[k]]

\* The caller sends the same list again with two neighbours exchanged.
StreakResendReordered ==
    /\ s_pc = "replied"
    /\ HasDateList(s_payload)
    /\ \E i \in 1..(Len(s_payload.o["dates"].v) - 1) :
          s_payload' = JObj([dates |-> JList(Swap(s_payload.o["dates"].v, i))])
    /\ s_prev' = s_response
    /\ s_pc' = "received"
    /\ s_response' = NoResult
    /\ s_current' = NoResult
    /\ s_longest' = NoResult
    /\ UNCHANGED <<s_today, serveVars, handlerVars, clientVars>>

\* The caller sends the same list again with one entry repeated.
StreakResendRepeated ==
    /\ s_pc = "replied"
    /\ HasDateList(s_payload)
    /\ Len(s_payload.o["dates"].v) < MaxDates
    /\ \E i \in DOMAIN s_payload.o["dates"].v :
          s_payload' = JObj([dates |->
              JList(Append(s_payload.o["dates"].v, s_payload.o["dates"].v[i]))])
    /\ s_prev' = s_response
    /\ s_pc' = "received"
    /\ s_response' = NoResult
    /\ s_current' = NoResult
    /\ s_longest' = NoResult
    /\ UNCHANGED <<s_today, serveVars, handlerVars, clientVars>>

NextStreak ==
    \/ StreakProcess
    \/ StreakResendReordered
    \/ StreakResendRepeated

SpecStreak == InitStreak /\ [][NextStreak]_vars

\* ------------------------------------------------ streak worker: claims

\* An entry of 'dates' that some accepted format reads as a calendar day.
EntryParses(e) ==
    /\ e.t = "str"
    /\ e.v.fmt \in Range(DATE_FORMATS)
    /\ ValidYMD(e.v.y, e.v.m, e.v.d)

\* The requests the worker is to reject.
StreakRejected(payload) ==
    \/ payload.t # "obj"
    \/ ~("dates" \in DOMAIN payload.o)
    \/ payload.o["dates"].t # "list"
    \/ \A i \in DOMAIN payload.o["dates"].v : ~EntryParses(payload.o["dates"].v[i])

\* Every day of a..b is in S (never enumerating more days than S holds).
RunIn(S, a, b) ==
    /\ a <= b
    /\ b - a < Cardinality(S)
    /\ \A k \in a..b : k \in S

Max(ns) == CHOOSE n \in ns : \A k \in ns : k <= n

\* The size of the largest set of consecutive days contained in S.
LargestRun(S) ==
    IF S = {} THEN 0
    ELSE Max({b - a + 1 : <<a, b>> \in {ab \in S \X S : RunIn(S, ab[1], ab[2])}})

\* How many consecutive days immediately before day are all in S.
DaysBefore(S, day) ==
    Max({n \in 0..Cardinality(S) : \A i \in 1..n : (day - i) \in S})

\* C6: process_request returns {ok: false, error} exactly for a payload
\* that is not an object, has no 'dates' list, or has no entry that
\* parses; for every other payload it returns {ok: true, result} with two
\* integers, whatever unparsable entries the list also holds.
C6_ProcessRequestOutcome ==
    s_pc = "replied" =>
        /\ ~IsRaise(s_response)
        /\ IF StreakRejected(s_payload)
           THEN /\ s_response.val.ok = FALSE
                /\ DOMAIN s_response.val = {"ok", "error"}
           ELSE /\ s_response.val.ok = TRUE
                /\ s_response.val.result.current_streak \in Nat
                /\ s_response.val.result.longest_streak \in Nat

\* C7: calculate_longest_streak returns the size of the largest set of
\* consecutive days in the de-duplicated dates, and 0 for no dates.
C7_LongestIsLargestRun ==
    s_pc = "replied" => s_longest = Ret(LargestRun(ParsedSet(s_payload)))

\* C8: calculate_current_streak is 0 when today is not among the dates,
\* and otherwise 1 plus the number of consecutive days just before today
\* that are all among them.
C8_CurrentIsRunEndingToday ==
    s_pc = "replied" =>
        s_current = Ret(IF s_today \notin ParsedSet(s_payload) THEN 0
                        ELSE 1 + DaysBefore(ParsedSet(s_payload), s_today))

C8_Witness ==
    /\ s_pc = "replied"
    /\ s_today \in ParsedSet(s_payload)
    /\ s_current = Ret(3)

\* The dates with today added, as a list, for calculate_longest_streak.
WithToday == ParsedDates(s_payload) \o <<s_today>>

\* C9: current_streak(dates) <= longest_streak(dates with today added),
\* in whatever order the set is iterated.
C9_CurrentAtMostLongestWithToday ==
    s_pc = "replied" =>
        \A order \in Orders(Range(WithToday)) :
            LET lng == calculate_longest_streak(WithToday, order)
            IN  /\ ~IsRaise(s_current)
                /\ ~IsRaise(lng)
                /\ s_current.val <= lng.val

\* C29: for every collection of dates and every today, the current streak
\* is at most the longest streak computed on the same collection, both as
\* the two functions return them and as the reply carries them.
C29_CurrentAtMostLongest ==
    s_pc = "replied" =>
        /\ ~IsRaise(s_current)
        /\ ~IsRaise(s_longest)
        /\ s_current.val <= s_longest.val
        /\ ~StreakRejected(s_payload) =>
              /\ ~IsRaise(s_response)
              /\ s_response.val.result.current_streak
                    <= s_response.val.result.longest_streak

\* C10: for a fixed today the worker's outcome depends only on the set of
\* parsed dates: a list reordered or with entries repeated gets the reply
\* the list before it got.
C10_ReplyDependsOnDateSetOnly ==
    (s_pc = "replied" /\ s_prev # NoResult) => s_response = s_prev

C10_Witness ==
    /\ s_pc = "replied"
    /\ s_prev # NoResult
    /\ ~IsRaise(s_response)
    /\ s_response.val.ok
    /\ s_response.val.result.longest_streak = 2
    /\ s_response.val.result.current_streak = 1
    /\ Len(s_payload.o["dates"].v) > Cardinality(ParsedSet(s_payload))

\* ================================================================
\* The wire: what a worker's socket can hand to recv
\* ================================================================

\* Short texts are sequences of these characters.
SP == " "
DQ == "\""
Chars == {SP, DQ, "q", "Q", "x"}

RECURSIVE LStrip(_)
LStrip(cs) == IF cs # <<>> /\ Head(cs) = SP THEN LStrip(Tail(cs)) ELSE cs

RECURSIVE RStrip(_)
RStrip(cs) ==
    IF cs # <<>> /\ cs[Len(cs)] = SP THEN RStrip(SubSeq(cs, 1, Len(cs) - 1)) ELSE cs

\* bytes.strip() / str.strip()
CharsStrip(cs) == RStrip(LStrip(cs))

\* bytes.lower() / str.lower()
CharsLower(cs) == [i \in DOMAIN cs |-> IF cs[i] = "Q" THEN "q" ELSE cs[i]]

\* A str held as its characters.
CharText(cs) == [fmt |-> "chars", cs |-> cs]

\* A message is one of:
\*   [k |-> "badutf8"]           bytes that are not UTF-8
\*   [k |-> "chars", cs |-> ..]  a short text
\*   [k |-> "deep"]              JSON nested deeper than the decoder's
\*                               recursion limit: json.loads raises
\*                               RecursionError, not JSONDecodeError
\*   [k |-> "json", v |-> ..]    the JSON text of the array, number or
\*                               object v
BadUtf8 == [k |-> "badutf8"]
CharsMsg(cs) == [k |-> "chars", cs |-> cs]
DeepMsg == [k |-> "deep"]
JsonMsg(v) == [k |-> "json", v |-> v]

\* json.loads of a short text: a JSON document only when it is one
\* string literal, blanks around it allowed.
JsonLoadsChars(cs) ==
    LET t == CharsStrip(cs)
    IN  IF /\ Len(t) >= 2
           /\ t[1] = DQ
           /\ t[Len(t)] = DQ
           /\ \A i \in 2..(Len(t) - 1) : t[i] # DQ
        THEN Ret(JStr(CharText(SubSeq(t, 2, Len(t) - 1))))
        ELSE Raise("JSONDecodeError")

\* json.loads(raw_bytes.decode("utf-8"))
JsonLoads(msg) ==
    IF msg.k = "badutf8" THEN Raise("UnicodeDecodeError")
    ELSE IF msg.k = "chars" THEN JsonLoadsChars(msg.cs)
    ELSE IF msg.k = "deep" THEN Raise("RecursionError")
    ELSE Ret(msg.v)

\* ================================================================
\* Trend worker: the quit control
\* ================================================================

\* Ret(TRUE/FALSE), or the exception json.loads lets through.
is_quit_signal(raw_request) ==
    IF raw_request.k = "badutf8" THEN Ret(FALSE)
    ELSE IF raw_request.k = "deep" THEN Raise("RecursionError")
    ELSE IF raw_request.k = "json" THEN Ret(FALSE)
    ELSE LET trimmed == CharsLower(CharsStrip(raw_request.cs))
             decoded == JsonLoadsChars(trimmed)
         IN  IF trimmed = <<"q">> THEN Ret(TRUE)
             ELSE IF IsRaise(decoded) THEN Ret(FALSE)
             ELSE Ret(/\ decoded.val.t = "str"
                      /\ CharsLower(CharsStrip(decoded.val.v.cs)) = <<"q">>)

\* ================================================================
\* Helpers shared by the activity, trend and progress workers
\* ================================================================

S(s) == JStr(Plain(s))

\* dict.get(key) and dict.get(key, default); AttributeError when the
\* receiver is not a dict is raised by the callers below.
Get(obj, key) == IF key \in DOMAIN obj.o THEN obj.o[key] ELSE None
GetOr(obj, key, default) == IF key \in DOMAIN obj.o THEN obj.o[key] ELSE default

\* Python truthiness of a decoded JSON value.
Truthy(v) ==
    IF v.t = "null" THEN FALSE
    ELSE IF v.t = "bool" THEN v.v
    ELSE IF v.t = "num" THEN v.v # 0
    ELSE IF v.t = "bignum" THEN TRUE
    ELSE IF v.t = "list" THEN v.v # <<>>
    ELSE IF v.t = "obj" THEN DOMAIN v.o # {}
    ELSE \* str
         IF v.v.fmt = "plain" THEN v.v.s # ""
         ELSE IF v.v.fmt = "chars" THEN v.v.cs # <<>>
         ELSE TRUE

\* isinstance(date_field, str) and date_field.strip() is non-empty
NonBlankStr(v) ==
    /\ v.t = "str"
    /\ IF v.v.fmt = "plain" THEN v.v.s \notin {"", " "}
       ELSE IF v.v.fmt = "chars" THEN CharsStrip(v.v.cs) # <<>>
       ELSE TRUE

make_error_response(message) == [status |-> "error", error |-> message]

\* make_error_response(f"Internal error: {str(e)}")
InternalError(e) == make_error_response(<<"Internal error: ", e>>)

YearOf(n) ==
    CHOOSE y \in ((n - 1) \div 366 + 1)..((n - 1) \div 365 + 1) :
        DaysBeforeYear(y) < n /\ n <= DaysBeforeYear(y + 1)

MonthOf(n) ==
    LET y == YearOf(n)
        r == n - DaysBeforeYear(y)
    IN  CHOOSE m \in 1..12 :
            DaysBeforeMonth(y, m) < r /\ r <= DaysBeforeMonth(y, m) + DaysInMonth(y, m)

\* d.isoformat()
IsoFormat(n) ==
    LET y == YearOf(n)
        m == MonthOf(n)
    IN  DateText("%Y-%m-%d", y, m, n - DaysBeforeYear(y) - DaysBeforeMonth(y, m), FALSE)

\* d.weekday(): Monday is 0
Weekday(n) == (n + 6) % 7

\* datetime.fromisoformat(value).date(), then strptime(value, "%Y-%m-%d"):
\* a parsed date is JNum(ordinal), failure is None.  fromisoformat also
\* reads a date-time and .date() drops its time.  The text is not stripped
\* here.
parse_iso_date(value) ==
    IF value.t # "str" THEN None
    ELSE IF /\ value.v.fmt \in {"%Y-%m-%d", "%Y-%m-%dT%H:%M:%S"}
            /\ ~value.v.ws
            /\ ValidYMD(value.v.y, value.v.m, value.v.d)
         THEN JNum(ToOrdinal(value.v.y, value.v.m, value.v.d))
         ELSE None

RECURSIVE SortedSeq(_)
SortedSeq(ns) ==
    IF ns = {} THEN <<>>
    ELSE LET least == CHOOSE n \in ns : \A k \in ns : n <= k
         IN  <<least>> \o SortedSeq(ns \ {least})

\* ================================================================
\* Activity worker
\* ================================================================

\* The set of dates read from items[date_field], or AttributeError for
\* an item that is not a mapping.
RECURSIVE ExtractLoop(_, _, _, _)
ExtractLoop(items, date_field, i, dates_set) ==
    IF i > Len(items) THEN Ret(dates_set)
    ELSE IF items[i].t # "obj" THEN Raise("AttributeError")
    ELSE LET d == parse_iso_date(Get(items[i], date_field))
         IN  ExtractLoop(items, date_field, i + 1,
                         IF d # None THEN dates_set \cup {d.v} ELSE dates_set)

extract_unique_dates(items, date_field) ==
    LET r == ExtractLoop(items, date_field, 1, {})
    IN  IF IsRaise(r) THEN r ELSE Ret(SortedSeq(r.val))

EmptyRun == [length_days |-> 0, start_date |-> None, end_date |-> None]

\* RunLoop with '>=' in place of '>' in both comparisons: of runs of equal
\* length the later one is kept.
RECURSIVE RunLoopLaterWins(_, _, _, _)
RunLoopLaterWins(dates, i, best, cur) ==
    IF i > Len(dates)
    THEN (IF cur[1] >= best[1] THEN cur ELSE best)
    ELSE IF dates[i] = dates[i - 1] + 1
         THEN RunLoopLaterWins(dates, i + 1, best, <<cur[1] + 1, cur[2], dates[i]>>)
         ELSE RunLoopLaterWins(dates, i + 1,
                               IF cur[1] >= best[1] THEN cur ELSE best,
                               <<1, dates[i], dates[i]>>)

\* The loop 'for i in range(1, len(dates))' and the comparison after it;
\* best and cur are <<length, start, end>>.
RECURSIVE RunLoop(_, _, _, _)
RunLoop(dates, i, best, cur) ==
    IF i > Len(dates)
    THEN (IF cur[1] > best[1] THEN cur ELSE best)
    ELSE IF dates[i] = dates[i - 1] + 1
         THEN RunLoop(dates, i + 1, best, <<cur[1] + 1, cur[2], dates[i]>>)
         ELSE RunLoop(dates, i + 1,
                      IF cur[1] > best[1] THEN cur ELSE best,
                      <<1, dates[i], dates[i]>>)

\* find_longest_active_run reporting as end_date the day after the run's
\* last day.
find_longest_active_run_end_exclusive(dates) ==
    IF dates = <<>> THEN EmptyRun
    ELSE LET best == RunLoop(dates, 2, <<1, dates[1], dates[1]>>,
                             <<1, dates[1], dates[1]>>)
         IN  [length_days |-> best[1],
              start_date |-> JStr(IsoFormat(best[2])),
              end_date |-> JStr(IsoFormat(best[3] + 1))]

find_longest_active_run(dates) ==
    IF dates = <<>> THEN EmptyRun
    ELSE LET best == RunLoop(dates, 2, <<1, dates[1], dates[1]>>,
                             <<1, dates[1], dates[1]>>)
         IN  [length_days |-> best[1],
              start_date |-> JStr(IsoFormat(best[2])),
              end_date |-> JStr(IsoFormat(best[3]))]

compute_longest_run(items, date_field) ==
    LET dates == extract_unique_dates(items, date_field)
    IN  IF IsRaise(dates) THEN dates
        ELSE IF dates.val = <<>> THEN Ret(EmptyRun)
        ELSE Ret(find_longest_active_run(dates.val))

\* The days build_date_range yields, or OverflowError: after yielding
\* end_date the generator still adds one day, which 9999-12-31 cannot take.
build_date_range(start_date, end_date) ==
    IF end_date = MaxOrdinal THEN Raise("OverflowError")
    ELSE Ret(start_date..end_date)

\* 'for item in items' of compute_heatmap, on a heatmap keyed by isoformat.
RECURSIVE HeatmapLoop(_, _, _, _)
HeatmapLoop(items, date_field, i, heatmap) ==
    IF i > Len(items) THEN Ret(heatmap)
    ELSE IF items[i].t # "obj" THEN Raise("AttributeError")
    ELSE LET d == parse_iso_date(Get(items[i], date_field))
         IN  IF d = None THEN HeatmapLoop(items, date_field, i + 1, heatmap)
             ELSE LET key == IsoFormat(d.v)
                  IN  HeatmapLoop(items, date_field, i + 1,
                          IF key \in DOMAIN heatmap
                          THEN [heatmap EXCEPT ![key] = @ + 1]
                          ELSE heatmap)

\* compute_heatmap without the test 'end_date < start_date': a window that
\* ends before it starts gives an empty heatmap.
compute_heatmap_unordered(items, date_field, range_start_str, range_end_str) ==
    LET start_date == parse_iso_date(range_start_str)
        end_date == parse_iso_date(range_end_str)
    IN  IF start_date = None \/ end_date = None
        THEN Ret(<<None, make_error_response(
                 <<"'range_start' and 'range_end' must be valid ISO dates (YYYY-MM-DD).">>)>>)
        ELSE LET counted == HeatmapLoop(items, date_field, 1,
                                [key \in {IsoFormat(d) : d \in start_date.v..end_date.v} |-> 0])
             IN  IF IsRaise(counted) THEN counted
                 ELSE Ret(<<counted.val, None>>)

\* Returns <<heatmap, error>> as Ret, or the exception raised.
compute_heatmap(items, date_field, range_start_str, range_end_str) ==
    LET start_date == parse_iso_date(range_start_str)
        end_date == parse_iso_date(range_end_str)
    IN  IF start_date = None \/ end_date = None
        THEN Ret(<<None, make_error_response(
                 <<"'range_start' and 'range_end' must be valid ISO dates (YYYY-MM-DD).">>)>>)
        ELSE IF end_date.v < start_date.v
        THEN Ret(<<None, make_error_response(
                 <<"'range_end' must be on or after 'range_start'.">>)>>)
        ELSE LET days == build_date_range(start_date.v, end_date.v)
             IN  IF IsRaise(days) THEN days
                 ELSE LET counted == HeatmapLoop(items, date_field, 1,
                                         [key \in {IsoFormat(d) : d \in days.val} |-> 0])
                      IN  IF IsRaise(counted) THEN counted
                          ELSE Ret(<<counted.val, None>>)

\* Returns <<mode, date_field, items, error>>; AttributeError when the
\* decoded body is not an object.
activity_validate_request(request) ==
    IF request.t # "obj" THEN Raise("AttributeError")
    ELSE LET mode == GetOr(request, "mode", S("both"))
             date_field == Get(request, "date_field")
             items == Get(request, "items")
         IN  IF Get(request, "request_type") # S("activity_analyzer")
             THEN Ret(<<None, None, None, make_error_response(
                      <<"Unsupported request_type. Expected 'activity_analyzer'.">>)>>)
             ELSE IF mode \notin {S("longest_run"), S("heatmap"), S("both")}
             THEN Ret(<<None, None, None, make_error_response(
                      <<"Invalid 'mode'. Expected 'longest_run', 'heatmap', or 'both'.">>)>>)
             ELSE IF ~NonBlankStr(date_field)
             THEN Ret(<<None, None, None, make_error_response(
                      <<"'date_field' must be a non-empty string.">>)>>)
             ELSE IF items.t # "list"
             THEN Ret(<<None, None, None, make_error_response(
                      <<"'items' field must be a list.">>)>>)
             ELSE Ret(<<mode, date_field, items, None>>)

activity_make_success_response(mode, date_field, longest_run, heatmap) ==
    [status |-> "ok", mode |-> mode, date_field |-> date_field,
     longest_run |-> longest_run, heatmap |-> heatmap]

\* The heatmap part of handle_message, given the longest_run already
\* computed: the reply, or the exception raised.
ActivityHeatmapPart(request, mode, date_field, items, longest_run) ==
    IF mode \notin {S("heatmap"), S("both")}
    THEN Ret(activity_make_success_response(mode, date_field, longest_run, <<>>))
    ELSE IF ~Truthy(Get(request, "range_start")) \/ ~Truthy(Get(request, "range_end"))
    THEN Ret(make_error_response(
             <<"'range_start' and 'range_end' are required for 'heatmap' or 'both' modes.">>))
    ELSE LET hm == compute_heatmap(items.v, date_field.v.s,
                                   Get(request, "range_start"), Get(request, "range_end"))
         IN  IF IsRaise(hm) THEN hm
             ELSE IF hm.val[2] # None THEN Ret(hm.val[2])
             ELSE Ret(activity_make_success_response(mode, date_field, longest_run,
                                                     hm.val[1]))

\* The reply dict that handle_message serializes, or the exception that
\* leaves it.
activity_handle_message(raw_bytes) ==
    LET request == JsonLoads(raw_bytes)
    IN  IF request = Raise("JSONDecodeError")
        THEN Ret(make_error_response(<<"Invalid JSON in request body.">>))
        ELSE IF IsRaise(request) THEN request
        ELSE LET v == activity_validate_request(request.val)
             IN  IF IsRaise(v) THEN v
                 ELSE IF v.val[4] # None THEN Ret(v.val[4])
                 ELSE IF v.val[1] \in {S("longest_run"), S("both")}
                      THEN LET run == compute_longest_run(v.val[3].v, v.val[2].v.s)
                           IN  IF IsRaise(run) THEN run
                               ELSE ActivityHeatmapPart(request.val, v.val[1], v.val[2],
                                                        v.val[3], run.val)
                      ELSE ActivityHeatmapPart(request.val, v.val[1], v.val[2],
                                               v.val[3], EmptyRun)

\* ================================================================
\* Trend worker
\* ================================================================

bucket_for_day(d) == IsoFormat(d)

\* bucket_for_week without the step back to Monday.
bucket_for_week_same_day(d) == IsoFormat(d)

\* date.min is a Monday, so d - timedelta(days=d.weekday()) never overflows.
bucket_for_week(d) == IsoFormat(d - Weekday(d))

bucket_for_month(d) == [fmt |-> "%Y-%m", y |-> YearOf(d), m |-> MonthOf(d)]

get_bucket_key(d, bucket_type) ==
    IF bucket_type = S("day") THEN JStr(bucket_for_day(d))
    ELSE IF bucket_type = S("week") THEN JStr(bucket_for_week(d))
    ELSE IF bucket_type = S("month") THEN JStr(bucket_for_month(d))
    ELSE None

\* BucketLoop with 'buckets[bucket_key] = 1' in place of the increment.
RECURSIVE BucketLoopNoIncrement(_, _, _, _, _)
BucketLoopNoIncrement(items, date_field, bucket_type, i, buckets) ==
    IF i > Len(items) THEN Ret(buckets)
    ELSE IF items[i].t # "obj" THEN Raise("AttributeError")
    ELSE LET d == parse_iso_date(Get(items[i], date_field))
             bucket_key == get_bucket_key(d.v, bucket_type)
         IN  IF d = None
             THEN BucketLoopNoIncrement(items, date_field, bucket_type, i + 1, buckets)
             ELSE BucketLoopNoIncrement(items, date_field, bucket_type, i + 1,
                     [k \in DOMAIN buckets \cup {bucket_key.v} |-> 1])

\* buckets is a function from bucket key texts to counts.
RECURSIVE BucketLoop(_, _, _, _, _)
BucketLoop(items, date_field, bucket_type, i, buckets) ==
    IF i > Len(items) THEN Ret(buckets)
    ELSE IF items[i].t # "obj" THEN Raise("AttributeError")
    ELSE LET d == parse_iso_date(Get(items[i], date_field))
             bucket_key == get_bucket_key(d.v, bucket_type)
         IN  IF d = None
             THEN BucketLoop(items, date_field, bucket_type, i + 1, buckets)
             ELSE IF bucket_key = None
             THEN BucketLoop(items, date_field, bucket_type, i + 1, buckets)
             ELSE BucketLoop(items, date_field, bucket_type, i + 1,
                     IF bucket_key.v \in DOMAIN buckets
                     THEN [buckets EXCEPT ![bucket_key.v] = @ + 1]
                     ELSE [k \in DOMAIN buckets \cup {bucket_key.v} |->
                              IF k = bucket_key.v THEN 1 ELSE buckets[k]])

compute_time_buckets(items, date_field, bucket_type) ==
    BucketLoop(items, date_field, bucket_type, 1, <<>>)

trend_make_success_response(bucket_type, date_field, buckets) ==
    [status |-> "ok", bucket_type |-> bucket_type, date_field |-> date_field,
     buckets |-> buckets]

\* Returns <<bucket_type, date_field, items, error>>.
\* validate_request testing 'items' before 'date_field'.
trend_validate_request_items_first(request) ==
    IF request.t # "obj" THEN Raise("AttributeError")
    ELSE LET bucket_type == Get(request, "bucket_type")
             date_field == Get(request, "date_field")
             items == Get(request, "items")
         IN  IF Get(request, "request_type") # S("time_series_trend")
             THEN Ret(<<None, None, None, make_error_response(
                      <<"Unsupported request_type. Expected 'time_series_trend'.">>)>>)
             ELSE IF bucket_type \notin {S("day"), S("week"), S("month")}
             THEN Ret(<<None, None, None, make_error_response(
                      <<"Invalid 'bucket_type'. Expected 'day', 'week', or 'month'.">>)>>)
             ELSE IF items.t # "list"
             THEN Ret(<<None, None, None, make_error_response(
                      <<"'items' field must be a list.">>)>>)
             ELSE IF ~NonBlankStr(date_field)
             THEN Ret(<<None, None, None, make_error_response(
                      <<"'date_field' must be a non-empty string.">>)>>)
             ELSE Ret(<<bucket_type, date_field, items, None>>)

trend_validate_request(request) ==
    IF request.t # "obj" THEN Raise("AttributeError")
    ELSE LET bucket_type == Get(request, "bucket_type")
             date_field == Get(request, "date_field")
             items == Get(request, "items")
         IN  IF Get(request, "request_type") # S("time_series_trend")
             THEN Ret(<<None, None, None, make_error_response(
                      <<"Unsupported request_type. Expected 'time_series_trend'.">>)>>)
             ELSE IF bucket_type \notin {S("day"), S("week"), S("month")}
             THEN Ret(<<None, None, None, make_error_response(
                      <<"Invalid 'bucket_type'. Expected 'day', 'week', or 'month'.">>)>>)
             ELSE IF ~NonBlankStr(date_field)
             THEN Ret(<<None, None, None, make_error_response(
                      <<"'date_field' must be a non-empty string.">>)>>)
             ELSE IF items.t # "list"
             THEN Ret(<<None, None, None, make_error_response(
                      <<"'items' field must be a list.">>)>>)
             ELSE Ret(<<bucket_type, date_field, items, None>>)

trend_handle_message(raw_bytes) ==
    LET request == JsonLoads(raw_bytes)
    IN  IF request = Raise("JSONDecodeError")
        THEN Ret(make_error_response(<<"Invalid JSON in request body.">>))
        ELSE IF IsRaise(request) THEN request
        ELSE LET v == trend_validate_request(request.val)
             IN  IF IsRaise(v) THEN v
                 ELSE IF v.val[4] # None THEN Ret(v.val[4])
                 ELSE LET buckets == compute_time_buckets(v.val[3].v, v.val[2].v.s,
                                                          v.val[1])
                      IN  IF IsRaise(buckets) THEN buckets
                          ELSE Ret(trend_make_success_response(v.val[1], v.val[2],
                                                               buckets.val))

\* ================================================================
\* Progress worker
\* ================================================================

\* A str that float() reads as the number n.
NumText(n) == [fmt |-> "number", n |-> n]

\* str(value) inside the error text.
ValueStr(value) ==
    IF value.t = "str" /\ value.v.fmt = "plain" THEN value.v.s ELSE value.t

\* No error message (the None of an (value, error) pair of to_float).
NoMessage == <<>>

\* A JSON integer beyond the range of a float (1 followed by 400 zeros):
\* json.loads reads it as an int, and float() of it raises OverflowError.
BigNum == [t |-> "bignum"]

\* Returns <<float_value, error_message>>: float() takes numbers, bools
\* and numeric strings; TypeError and ValueError become the message,
\* OverflowError is not caught.  Numbers are integers here.
to_float(value) ==
    IF value.t = "bignum" THEN Raise("OverflowError")
    ELSE IF value.t = "num" THEN Ret(<<value.v, NoMessage>>)
    ELSE IF value.t = "bool" THEN Ret(<<(IF value.v THEN 1 ELSE 0), NoMessage>>)
    ELSE IF value.t = "str" /\ value.v.fmt = "number" THEN Ret(<<value.v.n, NoMessage>>)
    ELSE Ret(<<None, <<"Value '", ValueStr(value), "' is not a valid number.">>>>)

\* a / b rounded to the nearest integer, halves to the even neighbour.
RoundDiv(a, b) ==
    LET n == IF b < 0 THEN -a ELSE a
        d == IF b < 0 THEN -b ELSE b
        q == n \div d
        r == n % d
    IN  IF 2 * r < d THEN q
        ELSE IF 2 * r > d THEN q + 1
        ELSE IF q % 2 = 0 THEN q ELSE q + 1

\* compute_progress testing 'current <= 0' before 'completed'.
compute_progress_not_started_first(current, target) ==
    LET completed == current >= target
        percent_rounded ==
            IF target = 0 THEN (IF current >= target THEN 10000 ELSE 0)
            ELSE RoundDiv(current * 10000, target)
    IN  [current |-> current,
         target |-> target,
         percent_complete |-> percent_rounded,
         completed |-> completed,
         status |-> IF current <= 0 THEN "not_started"
                    ELSE IF completed THEN "completed"
                    ELSE "in_progress"]

\* percent_complete is kept in hundredths of a percent: round(percent, 2)
\* of 66.666... is 6667.
compute_progress(current, target) ==
    LET completed == current >= target
        percent_rounded ==
            IF target = 0 THEN (IF current >= target THEN 10000 ELSE 0)
            ELSE RoundDiv(current * 10000, target)
    IN  [current |-> current,
         target |-> target,
         percent_complete |-> percent_rounded,
         completed |-> completed,
         status |-> IF completed THEN "completed"
                    ELSE IF current <= 0 THEN "not_started"
                    ELSE "in_progress"]

\* Returns <<result, error>> as Ret, or the exception of to_float.
compute_single_goal(current_raw, target_raw) ==
    LET c == to_float(current_raw)
        t == to_float(target_raw)
    IN  IF IsRaise(c) THEN c
        ELSE IF c.val[2] # NoMessage
        THEN Ret(<<None, make_error_response(<<"Invalid 'current' value: ">> \o c.val[2])>>)
        ELSE IF IsRaise(t) THEN t
        ELSE IF t.val[2] # NoMessage
        THEN Ret(<<None, make_error_response(<<"Invalid 'target' value: ">> \o t.val[2])>>)
        ELSE Ret(<<compute_progress(c.val[1], t.val[1]), None>>)

\* compute_multi_goals attaching the id of a goal and never its label.
EchoedIdOnly(goal) ==
    [k \in {"id"} \cap DOMAIN goal.o |-> goal.o[k]]

\* The id and label of a goal, when it has them.
Echoed(goal) ==
    [k \in {"id", "label"} \cap DOMAIN goal.o |-> goal.o[k]]

\* 'for idx, goal in enumerate(goals)': Ret(<<summaries, error>>), or
\* AttributeError for a goal that is not a mapping, or the exception of
\* to_float.  i is idx + 1.
RECURSIVE GoalsLoop(_, _, _)
GoalsLoop(goals, i, summaries) ==
    IF i > Len(goals) THEN Ret(<<summaries, None>>)
    ELSE IF goals[i].t # "obj" THEN Raise("AttributeError")
    ELSE LET current_raw == Get(goals[i], "current")
             target_raw == Get(goals[i], "target")
             c == to_float(current_raw)
             t == to_float(target_raw)
             idx == ToString(i - 1)
         IN  IF current_raw = None \/ target_raw = None
             THEN Ret(<<None, make_error_response(
                      <<"Goal at index ", idx, " is missing 'current' or 'target'.">>)>>)
             ELSE IF IsRaise(c) THEN c
             ELSE IF c.val[2] # NoMessage
             THEN Ret(<<None, make_error_response(
                      <<"Goal at index ", idx, " has invalid 'current': ">> \o c.val[2])>>)
             ELSE IF IsRaise(t) THEN t
             ELSE IF t.val[2] # NoMessage
             THEN Ret(<<None, make_error_response(
                      <<"Goal at index ", idx, " has invalid 'target': ">> \o t.val[2])>>)
             ELSE GoalsLoop(goals, i + 1,
                      Append(summaries,
                             Echoed(goals[i]) @@ compute_progress(c.val[1], t.val[1])))

compute_multi_goals(goals) == GoalsLoop(goals, 1, <<>>)

\* make_success_response leaving out single_goal when there is none.
progress_make_success_response_sparse(mode, single_goal, goals_summary) ==
    IF single_goal = None
    THEN [status |-> "ok", mode |-> mode, goals_summary |-> goals_summary]
    ELSE [status |-> "ok", mode |-> mode, single_goal |-> single_goal,
          goals_summary |-> goals_summary]

progress_make_success_response(mode, single_goal, goals_summary) ==
    [status |-> "ok", mode |-> mode, single_goal |-> single_goal,
     goals_summary |-> goals_summary]

\* validate_request requiring current and target for mode 'single' only.
progress_validate_request_single_only(request) ==
    IF request.t # "obj" THEN Raise("AttributeError")
    ELSE LET mode == GetOr(request, "mode", S("single"))
             current == Get(request, "current")
             target == Get(request, "target")
             goals == Get(request, "goals")
         IN  IF Get(request, "request_type") # S("progress_goal")
             THEN Ret(<<None, None, None, None, make_error_response(
                      <<"Unsupported request_type. Expected 'progress_goal'.">>)>>)
             ELSE IF mode \notin {S("single"), S("multi"), S("both")}
             THEN Ret(<<None, None, None, None, make_error_response(
                      <<"Invalid 'mode'. Expected 'single', 'multi', or 'both'.">>)>>)
             ELSE IF mode \in {S("single")} /\ (current = None \/ target = None)
             THEN Ret(<<None, None, None, None, make_error_response(
                      <<"'current' and 'target' are required for 'single' or 'both' modes.">>)>>)
             ELSE IF mode \in {S("multi"), S("both")} /\ goals.t # "list"
             THEN Ret(<<None, None, None, None, make_error_response(
                      <<"'goals' must be a list for 'multi' or 'both' modes.">>)>>)
             ELSE Ret(<<mode, current, target, goals, None>>)

\* Returns <<mode, current, target, goals, error>>.
progress_validate_request(request) ==
    IF request.t # "obj" THEN Raise("AttributeError")
    ELSE LET mode == GetOr(request, "mode", S("single"))
             current == Get(request, "current")
             target == Get(request, "target")
             goals == Get(request, "goals")
         IN  IF Get(request, "request_type") # S("progress_goal")
             THEN Ret(<<None, None, None, None, make_error_response(
                      <<"Unsupported request_type. Expected 'progress_goal'.">>)>>)
             ELSE IF mode \notin {S("single"), S("multi"), S("both")}
             THEN Ret(<<None, None, None, None, make_error_response(
                      <<"Invalid 'mode'. Expected 'single', 'multi', or 'both'.">>)>>)
             ELSE IF mode \in {S("single"), S("both")} /\ (current = None \/ target = None)
             THEN Ret(<<None, None, None, None, make_error_response(
                      <<"'current' and 'target' are required for 'single' or 'both' modes.">>)>>)
             ELSE IF mode \in {S("multi"), S("both")} /\ goals.t # "list"
             THEN Ret(<<None, None, None, None, make_error_response(
                      <<"'goals' must be a list for 'multi' or 'both' modes.">>)>>)
             ELSE Ret(<<mode, current, target, goals, None>>)

\* The multi-goal part of handle_message, given the single-goal result.
ProgressMultiPart(mode, goals, single_goal_result) ==
    IF mode \notin {S("multi"), S("both")}
    THEN Ret(progress_make_success_response(mode, single_goal_result, <<>>))
    ELSE LET multi == compute_multi_goals(goals.v)
         IN  IF IsRaise(multi) THEN multi
             ELSE IF multi.val[2] # None THEN Ret(multi.val[2])
             ELSE Ret(progress_make_success_response(mode, single_goal_result,
                                                     multi.val[1]))

\* handle_message after validate_request returned no error: the
\* single-goal part, then the multi-goal part.
ProgressSinglePart(mode, current_raw, target_raw, goals) ==
    IF mode \in {S("single"), S("both")}
    THEN LET single == compute_single_goal(current_raw, target_raw)
         IN  IF IsRaise(single) THEN single
             ELSE IF single.val[2] # None THEN Ret(single.val[2])
             ELSE ProgressMultiPart(mode, goals, single.val[1])
    ELSE ProgressMultiPart(mode, goals, None)

progress_handle_message(raw_bytes) ==
    LET request == JsonLoads(raw_bytes)
    IN  IF request = Raise("JSONDecodeError")
        THEN Ret(make_error_response(<<"Invalid JSON in request body.">>))
        ELSE IF IsRaise(request) THEN request
        ELSE LET v == progress_validate_request(request.val)
             IN  IF IsRaise(v) THEN v
                 ELSE IF v.val[5] # None THEN Ret(v.val[5])
                 ELSE ProgressSinglePart(v.val[1], v.val[2], v.val[3], v.val[4])

\* ================================================================
\* The serve loops
\* ================================================================

Workers == {"streak", "activity", "trend", "progress"}

D(y, m, d) == JStr(DateText("%Y-%m-%d", y, m, d, FALSE))

\* Bodies a client (or anything else that reaches the port) may send to
\* the streak worker.
StreakMsgs ==
    { JsonMsg(JObj([dates |-> JList(<<D(2024, 1, 2), D(2024, 1, 3), JNum(5)>>)])),
      JsonMsg(JObj([dates |-> JList(<<D(1, 1, 1)>>)])),
      JsonMsg(JObj([items |-> JList(<<>>)])),
      JsonMsg(JList(<<>>)),
      CharsMsg(<<"x">>),
      CharsMsg(<<DQ, "q", DQ>>),
      BadUtf8,
      DeepMsg }

ActivityRequest(mode, items, range_start, range_end) ==
    JObj([request_type |-> S("activity_analyzer"), mode |-> mode,
          date_field |-> S("d"), items |-> items,
          range_start |-> range_start, range_end |-> range_end])

ActivityItems ==
    JList(<<JObj([d |-> D(2024, 3, 1)]), JObj([d |-> D(2024, 3, 3)]),
            JObj([d |-> S("soon")]), JObj([e |-> D(2024, 3, 2)])>>)

ActivityMsgs ==
    { JsonMsg(ActivityRequest(S("both"), ActivityItems, D(2024, 3, 1), D(2024, 3, 3))),
      JsonMsg(ActivityRequest(S("longest_run"), ActivityItems, None, None)),
      JsonMsg(ActivityRequest(S("heatmap"), ActivityItems, None, D(2024, 3, 3))),
      JsonMsg(ActivityRequest(S("heatmap"), ActivityItems, D(2024, 3, 3), D(2024, 3, 1))),
      JsonMsg(ActivityRequest(S("heatmap"), ActivityItems, D(9999, 12, 30), D(9999, 12, 31))),
      JsonMsg(ActivityRequest(JNum(5), ActivityItems, None, None)),
      JsonMsg(ActivityRequest(S("both"), JList(<<JNum(5)>>), D(2024, 3, 1), D(2024, 3, 3))),
      JsonMsg(ActivityRequest(S("both"), None, D(2024, 3, 1), D(2024, 3, 3))),
      JsonMsg(JObj([request_type |-> S("activity_analyzer"), mode |-> S("longest_run"),
                    items |-> ActivityItems])),
      JsonMsg(JObj([request_type |-> S("time_series_trend")])),
      JsonMsg(JList(<<>>)),
      CharsMsg(<<"x">>),
      BadUtf8,
      DeepMsg }

TrendRequest(bucket_type, items) ==
    JObj([request_type |-> S("time_series_trend"), bucket_type |-> bucket_type,
          date_field |-> S("d"), items |-> items])

TrendItems ==
    JList(<<JObj([d |-> D(2024, 1, 15)]), JObj([d |-> D(2024, 1, 28)]),
            JObj([d |-> S("soon")])>>)

TrendMsgs ==
    { CharsMsg(<<"q">>),
      CharsMsg(<<SP, "Q", SP>>),
      CharsMsg(<<DQ, "Q", DQ>>),
      CharsMsg(<<DQ, SP, "q", DQ>>),
      CharsMsg(<<"x">>),
      CharsMsg(<<DQ, "x", DQ>>),
      JsonMsg(TrendRequest(S("month"), TrendItems)),
      JsonMsg(TrendRequest(S("week"), TrendItems)),
      JsonMsg(TrendRequest(S("year"), TrendItems)),
      JsonMsg(TrendRequest(S("day"), JList(<<JNum(5)>>))),
      JsonMsg(JObj([request_type |-> S("time_series_trend"), bucket_type |-> S("day"),
                    items |-> TrendItems])),
      JsonMsg(JObj([request_type |-> S("progress_goal")])),
      JsonMsg(JList(<<>>)),
      BadUtf8,
      DeepMsg }

ProgressRequest(mode, current, target, goals) ==
    JObj([request_type |-> S("progress_goal"), mode |-> mode,
          current |-> current, target |-> target, goals |-> goals])

Goal(current, target) == JObj([current |-> current, target |-> target])

ProgressMsgs ==
    { JsonMsg(ProgressRequest(S("single"), JNum(3), JNum(0), None)),
      JsonMsg(ProgressRequest(S("both"), JNum(2), JNum(3),
                  JList(<<Goal(JNum(1), JNum(4)),
                          JObj([current |-> JNum(0), target |-> JNum(2),
                                id |-> JNum(7)])>>))),
      JsonMsg(ProgressRequest(S("multi"), None, None,
                  JList(<<Goal(JNum(1), JNum(4)), Goal(JNum(1), None)>>))),
      JsonMsg(ProgressRequest(S("multi"), None, None,
                  JList(<<Goal(JNum(1), S("many"))>>))),
      JsonMsg(ProgressRequest(S("multi"), None, None, JList(<<JNum(5)>>))),
      JsonMsg(ProgressRequest(S("multi"), None, None, None)),
      JsonMsg(ProgressRequest(S("single"), JNum(3), None, None)),
      JsonMsg(ProgressRequest(S("single"), JStr(NumText(3)), JList(<<>>), None)),
      JsonMsg(ProgressRequest(S("all"), JNum(3), JNum(4), None)),
      JsonMsg(JObj([request_type |-> S("activity_analyzer")])),
      JsonMsg(JList(<<>>)),
      CharsMsg(<<"x">>),
      BadUtf8,
      DeepMsg }

Msgs(w) ==
    IF w = "streak" THEN StreakMsgs
    ELSE IF w = "activity" THEN ActivityMsgs
    ELSE IF w = "trend" THEN TrendMsgs
    ELSE ProgressMsgs

\* What handle_message of worker w gives for raw_bytes.
handle_message(w, raw_bytes) ==
    IF w = "activity" THEN activity_handle_message(raw_bytes)
    ELSE IF w = "trend" THEN trend_handle_message(raw_bytes)
    ELSE progress_handle_message(raw_bytes)

\* Lines typed on the streak worker's console.
Lines == {<<"q">>, <<SP, "Q", SP>>, <<"x">>, <<>>}

Received == Len(SelectSeq(log, LAMBDA e : e.ev = "recv"))

RecvEvent(n, m) == [ev |-> "recv", n |-> n, msg |-> m]
SendEvent(r) == [ev |-> "send", n |-> r.n, body |-> r.body]

\* Where the trend worker runs: msvcrt imports on Windows only, elsewhere
\* keyboard_quit_pressed falls back to select on sys.stdin.
Platforms == {"windows", "posix"}

NL == "\n"

\* What the user types into the trend worker's terminal at one go.
TypedLines == {<<"Q", NL>>, <<"x", "q", NL>>, <<"x", NL>>}

\* How many times the user types something in a run.
MaxTyped == 2

\* The pc at which each worker's loop starts an iteration.
LoopTop(w) ==
    IF w = "streak" THEN "loop" ELSE IF w = "trend" THEN "keyboard" ELSE "recv"

InitServe ==
    /\ worker \in Workers
    /\ pc = LoopTop(worker)
    /\ cur_req = NoMsg
    /\ reply = NoReply
    /\ log = <<>>
    /\ raised = ""
    /\ exit_cause = ""
    /\ stop_flag = FALSE
    /\ lpc = IF worker = "streak" THEN "reading" ELSE "off"
    /\ flag_writes = <<>>
    /\ kbd \in IF worker = "trend"
               THEN {[NoKbd EXCEPT !.platform = p] : p \in Platforms}
               ELSE {NoKbd}
    /\ s_pc = "off"
    /\ s_payload = None
    /\ s_today \in Todays
    /\ s_response = NoResult
    /\ s_current = NoResult
    /\ s_longest = NoResult
    /\ s_prev = NoResult
    /\ HandlerUnused
    /\ ClientUnused

\* ------------------------------------------------ streak worker loop

\* while not stop_flag[0]
StreakLoopTest ==
    /\ worker = "streak"
    /\ pc = "loop"
    /\ IF stop_flag
       THEN pc' = "finally" /\ exit_cause' = "stop_flag"
       ELSE pc' = "poll" /\ UNCHANGED exit_cause
    /\ UNCHANGED <<worker, cur_req, reply, log, raised, stop_flag, lpc, flag_writes,
                   kbd, streakVars, handlerVars, clientVars>>

\* socket.poll(timeout=1000) returns 0: nothing arrived within a second.
StreakPollTimeout ==
    /\ worker = "streak"
    /\ pc = "poll"
    /\ pc' = "loop"
    /\ UNCHANGED <<worker, cur_req, reply, log, raised, exit_cause, stop_flag, lpc,
                   flag_writes, kbd, streakVars, handlerVars, clientVars>>

\* socket.poll finds a message and socket.recv_json() takes it off the
\* socket and decodes it; a body that does not decode raises out of
\* serve_requests.
StreakRecv ==
    /\ worker = "streak"
    /\ pc = "poll"
    /\ Received < MaxRequests
    /\ \E m \in StreakMsgs :
          /\ cur_req' = [n |-> Received + 1, msg |-> m]
          /\ log' = Append(log, RecvEvent(Received + 1, m))
          /\ IF IsRaise(JsonLoads(m))
             THEN /\ raised' = JsonLoads(m).exc
                  /\ exit_cause' = "exception"
                  /\ pc' = "finally"
             ELSE /\ pc' = "process"
                  /\ UNCHANGED <<raised, exit_cause>>
    /\ UNCHANGED <<worker, reply, stop_flag, lpc, flag_writes, kbd, streakVars, handlerVars, clientVars>>

\* response = process_request(payload)
StreakProcessRequest ==
    /\ worker = "streak"
    /\ pc = "process"
    /\ LET payload == JsonLoads(cur_req.msg).val
       IN  \E order \in Orders(ParsedSet(payload)) :
              LET response == process_request(payload, s_today, order)
              IN  IF IsRaise(response)
                  THEN /\ raised' = response.exc
                       /\ exit_cause' = "exception"
                       /\ pc' = "finally"
                       /\ UNCHANGED reply
                  ELSE /\ reply' = [n |-> cur_req.n, body |-> response.val]
                       /\ pc' = "send"
                       /\ UNCHANGED <<raised, exit_cause>>
    /\ UNCHANGED <<worker, cur_req, log, stop_flag, lpc, flag_writes, kbd, streakVars, handlerVars, clientVars>>

\* socket.send_json(response)
StreakSend ==
    /\ worker = "streak"
    /\ pc = "send"
    /\ log' = Append(log, SendEvent(reply))
    /\ pc' = "loop"
    /\ UNCHANGED <<worker, cur_req, reply, raised, exit_cause, stop_flag, lpc,
                   flag_writes, kbd, streakVars, handlerVars, clientVars>>

\* run_service's finally: shutdown(context, socket), then the process exits.
StreakShutdown ==
    /\ worker = "streak"
    /\ pc = "finally"
    /\ pc' = "closed"
    /\ UNCHANGED <<worker, cur_req, reply, log, raised, exit_cause, stop_flag, lpc,
                   flag_writes, kbd, streakVars, handlerVars, clientVars>>

\* shutdown_listener with the 'break' after the assignment left out.
ShutdownListenerNoBreak ==
    /\ worker = "streak"
    /\ lpc = "reading"
    /\ pc # "closed"
    /\ Len(flag_writes) < 3
    /\ \E line \in Lines :
          IF CharsLower(CharsStrip(line)) = <<"q">>
          THEN /\ stop_flag' = TRUE
               /\ flag_writes' = Append(flag_writes, "shutdown_listener")
               /\ lpc' = "reading"
          ELSE UNCHANGED <<stop_flag, flag_writes, lpc>>
    /\ UNCHANGED <<worker, pc, cur_req, reply, log, raised, exit_cause, kbd, streakVars, handlerVars, clientVars>>

\* One line read by 'for line in sys.stdin' in the daemon thread, which
\* lives until the process exits.
ShutdownListenerLine ==
    /\ worker = "streak"
    /\ lpc = "reading"
    /\ pc # "closed"
    /\ \E line \in Lines :
          IF CharsLower(CharsStrip(line)) = <<"q">>
          THEN /\ stop_flag' = TRUE
               /\ flag_writes' = Append(flag_writes, "shutdown_listener")
               /\ lpc' = "done"
          ELSE UNCHANGED <<stop_flag, flag_writes, lpc>>
    /\ UNCHANGED <<worker, pc, cur_req, reply, log, raised, exit_cause, kbd, streakVars, handlerVars, clientVars>>

\* sys.stdin reaches end of file: the for loop ends without an assignment.
ShutdownListenerEof ==
    /\ worker = "streak"
    /\ lpc = "reading"
    /\ pc # "closed"
    /\ lpc' = "done"
    /\ UNCHANGED <<worker, pc, cur_req, reply, log, raised, exit_cause, stop_flag,
                   flag_writes, kbd, streakVars, handlerVars, clientVars>>

\* ------------------------------- activity and progress worker loops

\* raw_request = socket.recv(), blocking
ServeRecv ==
    /\ worker \in {"activity", "progress"}
    /\ pc = "recv"
    /\ Received < MaxRequests
    /\ \E m \in Msgs(worker) :
          /\ cur_req' = [n |-> Received + 1, msg |-> m]
          /\ log' = Append(log, RecvEvent(Received + 1, m))
    /\ pc' = "handle"
    /\ UNCHANGED <<worker, reply, raised, exit_cause, stop_flag, lpc, flag_writes,
                   kbd, streakVars, handlerVars, clientVars>>

\* try: handle_message(raw_request) except Exception: the error reply
ServeHandle ==
    /\ worker \in {"activity", "progress", "trend"}
    /\ pc = "handle"
    /\ LET r == handle_message(worker, cur_req.msg)
       IN  reply' = [n |-> cur_req.n,
                     body |-> IF IsRaise(r) THEN InternalError(r.exc) ELSE r.val]
    /\ pc' = "send"
    /\ UNCHANGED <<worker, cur_req, log, raised, exit_cause, stop_flag, lpc,
                   flag_writes, kbd, streakVars, handlerVars, clientVars>>

\* ServeSend sending only the replies of handle_message that are not
\* errors: an error goes back to recv with nothing sent.
ServeSendDropsErrors ==
    /\ worker \in {"activity", "progress", "trend"}
    /\ pc = "send"
    /\ log' = IF reply.body.status = "error" THEN log ELSE Append(log, SendEvent(reply))
    /\ pc' = LoopTop(worker)
    /\ UNCHANGED <<worker, cur_req, reply, raised, exit_cause, stop_flag, lpc,
                   flag_writes, kbd, streakVars, handlerVars, clientVars>>

\* socket.send(response_bytes), then the next iteration
ServeSend ==
    /\ worker \in {"activity", "progress", "trend"}
    /\ pc = "send"
    /\ log' = Append(log, SendEvent(reply))
    /\ pc' = LoopTop(worker)
    /\ UNCHANGED <<worker, cur_req, reply, raised, exit_cause, stop_flag, lpc,
                   flag_writes, kbd, streakVars, handlerVars, clientVars>>

\* ------------------------------------------------- trend worker loop

\* Where the first line of the typed characters cs ends.
LineEnd(cs) ==
    IF \E i \in DOMAIN cs : cs[i] = NL
    THEN CHOOSE i \in DOMAIN cs : cs[i] = NL /\ \A j \in 1..(i - 1) : cs[j] # NL
    ELSE Len(cs)

\* keyboard_quit_pressed() on console k: whether it returns True, and the
\* console it leaves.  With msvcrt, kbhit() tells whether a key waits and
\* getwch() takes that one key.  Without it, select tells whether the
\* descriptor of sys.stdin is readable, and sys.stdin.read(1) returns one
\* character of the text stream: from the stream's own buffer if that holds
\* any, else it reads what the descriptor gives (a terminal gives one line)
\* into the buffer and returns the first character of it.
keyboard_quit_pressed(k) ==
    IF k.console = <<>>
    THEN [pressed |-> FALSE, kbd |-> k]
    ELSE IF k.platform = "windows"
    THEN [pressed |-> CharsLower(<<Head(k.console)>>) = <<"q">>,
          kbd |-> [k EXCEPT !.console = Tail(@)]]
    ELSE IF k.stdin_buffer # <<>>
    THEN [pressed |-> CharsLower(<<Head(k.stdin_buffer)>>) = <<"q">>,
          kbd |-> [k EXCEPT !.stdin_buffer = Tail(@)]]
    ELSE [pressed |-> CharsLower(<<Head(k.console)>>) = <<"q">>,
          kbd |-> [k EXCEPT !.console = SubSeq(@, LineEnd(@) + 1, Len(@)),
                            !.stdin_buffer = SubSeq(k.console, 2, LineEnd(k.console))]]

\* The user types into the worker's terminal.
TrendKeyTyped ==
    /\ worker = "trend"
    /\ pc # "closed"
    /\ kbd.typed < MaxTyped
    /\ \E line \in TypedLines :
          kbd' = [kbd EXCEPT !.console = @ \o line, !.typed = @ + 1]
    /\ UNCHANGED <<worker, pc, cur_req, reply, log, raised, exit_cause, stop_flag, lpc,
                   flag_writes, streakVars, handlerVars, clientVars>>

\* if keyboard_quit_pressed(): break
TrendKeyboardCheck ==
    /\ worker = "trend"
    /\ pc = "keyboard"
    /\ LET check == keyboard_quit_pressed(kbd)
       IN  /\ kbd' = check.kbd
           /\ IF check.pressed
              THEN pc' = "finally" /\ exit_cause' = "keyboard"
              ELSE pc' = "recv" /\ UNCHANGED exit_cause
    /\ UNCHANGED <<worker, cur_req, reply, log, raised, stop_flag, lpc, flag_writes,
                   streakVars, handlerVars, clientVars>>

\* socket.recv() raises zmq.Again after RCVTIMEO: continue
TrendRecvTimeout ==
    /\ worker = "trend"
    /\ pc = "recv"
    /\ pc' = "keyboard"
    /\ UNCHANGED <<worker, cur_req, reply, log, raised, exit_cause, stop_flag, lpc,
                   flag_writes, kbd, streakVars, handlerVars, clientVars>>

TrendRecv ==
    /\ worker = "trend"
    /\ pc = "recv"
    /\ Received < MaxRequests
    /\ \E m \in TrendMsgs :
          /\ cur_req' = [n |-> Received + 1, msg |-> m]
          /\ log' = Append(log, RecvEvent(Received + 1, m))
    /\ pc' = "quitcheck"
    /\ UNCHANGED <<worker, reply, raised, exit_cause, stop_flag, lpc, flag_writes,
                   kbd, streakVars, handlerVars, clientVars>>

quit_response ==
    [status |-> "ok", message |-> "Time-Series Trend Analyzer shutting down."]

\* if is_quit_signal(raw_request): outside the inner try, so what it
\* raises leaves run_server.
TrendQuitCheck ==
    /\ worker = "trend"
    /\ pc = "quitcheck"
    /\ LET q == is_quit_signal(cur_req.msg)
       IN  IF IsRaise(q)
           THEN /\ raised' = q.exc
                /\ exit_cause' = "exception"
                /\ pc' = "finally"
                /\ UNCHANGED reply
           ELSE IF q.val
           THEN /\ reply' = [n |-> cur_req.n, body |-> quit_response]
                /\ pc' = "sendquit"
                /\ UNCHANGED <<raised, exit_cause>>
           ELSE /\ pc' = "handle"
                /\ UNCHANGED <<reply, raised, exit_cause>>
    /\ UNCHANGED <<worker, cur_req, log, stop_flag, lpc, flag_writes, kbd, streakVars, handlerVars, clientVars>>

\* socket.send(serialize_response(quit_response)); break
TrendSendQuit ==
    /\ worker = "trend"
    /\ pc = "sendquit"
    /\ log' = Append(log, SendEvent(reply))
    /\ pc' = "finally"
    /\ exit_cause' = "quit"
    /\ UNCHANGED <<worker, cur_req, reply, raised, stop_flag, lpc, flag_writes,
                   kbd, streakVars, handlerVars, clientVars>>

\* finally: socket.close(); context.term()
TrendClose ==
    /\ worker = "trend"
    /\ pc = "finally"
    /\ pc' = "closed"
    /\ UNCHANGED <<worker, cur_req, reply, log, raised, exit_cause, stop_flag, lpc,
                   flag_writes, kbd, streakVars, handlerVars, clientVars>>

NextServe ==
    \/ StreakLoopTest
    \/ StreakPollTimeout
    \/ StreakRecv
    \/ StreakProcessRequest
    \/ StreakSend
    \/ StreakShutdown
    \/ ShutdownListenerLine
    \/ ShutdownListenerEof
    \/ ServeRecv
    \/ ServeHandle
    \/ ServeSend
    \/ TrendKeyTyped
    \/ TrendKeyboardCheck
    \/ TrendRecvTimeout
    \/ TrendRecv
    \/ TrendQuitCheck
    \/ TrendSendQuit
    \/ TrendClose

SpecServe == InitServe /\ [][NextServe]_vars

\* ------------------------------------------------- serve loops: claims

IsRecv(i) == log[i].ev = "recv"
IsSend(i) == log[i].ev = "send"

\* A structured error reply: {ok: false, error} from the streak worker,
\* {status: "error", error} from the others.
IsErrorBody(body) ==
    /\ "error" \in DOMAIN body
    /\ IF "ok" \in DOMAIN body THEN body.ok = FALSE ELSE body.status = "error"

\* The loop thread holds a request it has not answered yet.
Handling == pc \in {"process", "quitcheck", "handle", "send", "sendquit"}

IsQuitControl(m) ==
    /\ m.k = "chars"
    /\ LET t == CharsLower(CharsStrip(m.cs))
       IN  \/ t = <<"q">>
           \/ /\ Len(t) >= 2
              /\ t[1] = DQ
              /\ t[Len(t)] = DQ
              /\ CharsStrip(SubSeq(t, 2, Len(t) - 1)) = <<"q">>

ExpectedType(w) ==
    IF w = "activity" THEN S("activity_analyzer")
    ELSE IF w = "trend" THEN S("time_series_trend")
    ELSE S("progress_goal")

\* A malformed request: the body is not JSON, or its request_type is
\* wrong, or a required field is missing, or the mode is out of range.
Malformed(w, m) ==
    \/ m.k = "badutf8"
    \/ m.k = "chars" /\ IsRaise(JsonLoadsChars(m.cs)) /\ ~(w = "trend" /\ IsQuitControl(m))
    \/ /\ m.k = "json"
       /\ m.v.t = "obj"
       /\ IF w = "streak" THEN "dates" \notin DOMAIN m.v.o
          ELSE \/ Get(m.v, "request_type") # ExpectedType(w)
               \/ w \in {"activity", "trend"} /\ "date_field" \notin DOMAIN m.v.o
               \/ w \in {"activity", "trend"} /\ Get(m.v, "items").t # "list"
               \/ w = "trend" /\ Get(m.v, "bucket_type") \notin {S("day"), S("week"), S("month")}
               \/ w = "activity" /\ GetOr(m.v, "mode", S("both"))
                                       \notin {S("longest_run"), S("heatmap"), S("both")}
               \/ w = "progress" /\ GetOr(m.v, "mode", S("single"))
                                       \notin {S("single"), S("multi"), S("both")}

\* C2: a malformed request is answered with a structured error reply and
\* the worker keeps serving: while the request is in hand the loop has not
\* ended, and the next socket event is the error reply.
C2_MalformedGetsErrorReply ==
    \A i \in DOMAIN log :
        (IsRecv(i) /\ Malformed(worker, log[i].msg)) =>
            IF i = Len(log) THEN Handling
            ELSE IsSend(i + 1) /\ IsErrorBody(log[i + 1].body)

\* Computing the reply for request m raises in worker w (the body itself
\* decodes, and m is not the trend worker's quit control).
ComputingRaises(w, m) ==
    /\ ~IsRaise(JsonLoads(m))
    /\ ~(w = "trend" /\ IsQuitControl(m))
    /\ IF w = "streak"
       THEN \E order \in Orders(ParsedSet(JsonLoads(m).val)) :
               IsRaise(process_request(JsonLoads(m).val, s_today, order))
       ELSE IsRaise(handle_message(w, m))

\* C3: a request whose computation raises gets one structured error reply
\* carrying the exception's description, and no request whose body decodes
\* ends the worker.
C3_ExceptionBecomesErrorReply ==
    /\ \A i \in DOMAIN log :
          (IsRecv(i) /\ ComputingRaises(worker, log[i].msg)) =>
              IF i = Len(log) THEN Handling
              ELSE /\ IsSend(i + 1)
                   /\ IsErrorBody(log[i + 1].body)
                   /\ Len(log[i + 1].body.error) = 2
    /\ exit_cause = "exception" => IsRaise(JsonLoads(cur_req.msg))

\* C4: the trend worker answers the quit control with one status-ok
\* acknowledgement and leaves the loop, so nothing is received after it;
\* every other message is answered as an analytics request and does not
\* end the loop.
C4_QuitControl ==
    worker = "trend" =>
        \A i \in DOMAIN log :
            IsRecv(i) =>
                IF IsQuitControl(log[i].msg)
                THEN /\ i = Len(log) => pc \in {"quitcheck", "sendquit"}
                     /\ i < Len(log) =>
                           /\ IsSend(i + 1)
                           /\ log[i + 1].body = quit_response
                           /\ i + 1 = Len(log)
                           /\ pc \in {"finally", "closed"}
                ELSE /\ i = Len(log) => pc \in {"quitcheck", "handle", "send"}
                     /\ i < Len(log) =>
                           /\ IsSend(i + 1)
                           /\ log[i + 1].body # quit_response
                     /\ i + 1 = Len(log) => exit_cause \in {"", "keyboard"}

\* C5: stop_flag[0] starts false, is assigned only by shutdown_listener, at
\* most once, from false to true; no step of the loop thread changes it.
C5_StopFlagWriteOnce ==
    /\ [](/\ flag_writes \in {<<>>, <<"shutdown_listener">>}
          /\ stop_flag = (flag_writes # <<>>))
    /\ [][stop_flag' # stop_flag =>
             /\ ~stop_flag
             /\ stop_flag'
             /\ lpc = "reading"
             /\ pc' = pc
             /\ log' = log]_vars

C5_Witness ==
    /\ worker = "streak"
    /\ stop_flag
    /\ exit_cause = "stop_flag"
    /\ pc = "closed"
    /\ Len(log) = 2

\* ================================================================
\* handle_message of the activity, trend and progress workers as a
\* pure function of the decoded request
\* ================================================================

HandlerWorkers == {"activity", "trend", "progress"}

\* What items[date_field] may hold: three days of March 2024 (a Friday,
\* the Sunday of the same week as a date-time, the Monday after), an
\* impossible day, an item without the field, and the first and the last
\* day of the calendar.
ItemPool ==
    { JObj([d |-> D(2024, 3, 1)]),
      JObj([d |-> JStr(DateTimeText(2024, 3, 3))]),
      JObj([d |-> D(2024, 3, 4)]),
      JObj([d |-> D(2024, 2, 30)]),
      JObj([e |-> D(2024, 3, 2)]),
      JObj([d |-> D(1, 1, 1)]),
      JObj([d |-> D(9999, 12, 31)]) }

ItemLists == UNION {[1..n -> ItemPool] : n \in 0..MaxItems}

\* The optional members of a request: absent, or present with a value.
Optional(key, values) == {<<>>} \cup {[k \in {key} |-> v] : v \in values}

ValidRange == [range_start |-> D(2024, 3, 1), range_end |-> D(2024, 3, 3)]

\* A window that ends on the last day of the calendar.
LastDaysRange == [range_start |-> D(9999, 12, 30), range_end |-> D(9999, 12, 31)]

ReversedRange ==
    [range_start |-> JStr(DateTimeText(2024, 3, 3)), range_end |-> D(2024, 3, 1)]

ActivityRanges ==
    { <<>>,
      [range_start |-> D(2024, 3, 1)],
      ValidRange,
      ReversedRange,
      [range_start |-> S("soon"), range_end |-> D(2024, 3, 3)],
      LastDaysRange }

\* The mode and range members of a request: every range with mode
\* 'heatmap', and a few with the other modes and with no mode.
ActivityModeRanges ==
    { [mode |-> S("heatmap")] @@ range : range \in ActivityRanges }
    \cup { [mode |-> S("longest_run")] @@ range : range \in {<<>>, ReversedRange} }
    \cup { [mode |-> S("both")] @@ range : range \in {<<>>, ValidRange} }
    \cup { ValidRange, [range_start |-> D(2024, 3, 1)] }

\* Requests that name no date_field, with and without 'items', and some
\* whose date_field is null or blank.
NoDateField ==
    { date_field @@ items :
        date_field \in Optional("date_field", {None, S(" ")}),
        items \in Optional("items", {JList(<<JObj([d |-> D(2024, 3, 1)])>>)}) }

ActivityRequests ==
    { JObj([request_type |-> S("activity_analyzer"), date_field |-> S("d"),
            items |-> JList(items)] @@ mode_range) :
        items \in ItemLists, mode_range \in ActivityModeRanges }
    \cup
    { JObj([request_type |-> S("activity_analyzer")] @@ mode @@ rest) :
        mode \in Optional("mode", {S("longest_run"), S("weekly")}),
        rest \in NoDateField }

TrendRequests ==
    { JObj([request_type |-> S("time_series_trend"), date_field |-> S("d"),
            items |-> JList(items)] @@ bucket_type) :
        items \in ItemLists,
        bucket_type \in Optional("bucket_type",
                                 {S("day"), S("week"), S("month"), S("year")}) }
    \cup
    { JObj([request_type |-> S("time_series_trend")] @@ bucket_type @@ rest) :
        bucket_type \in Optional("bucket_type", {S("week"), S("year")}),
        rest \in NoDateField }

\* What 'current' and 'target' may hold.
ProgressValues ==
    {JNum(0 - 2), JNum(0), JNum(1), JNum(3), JStr(NumText(2)), S("many"), BigNum}

GoalPool ==
    { Goal(JNum(1), JNum(3)),
      JObj([current |-> JNum(3), target |-> JNum(1), id |-> JNum(7)]),
      JObj([current |-> JNum(0), target |-> JNum(0), label |-> S("rest")]),
      Goal(JNum(0 - 2), JNum(0)),
      JObj([current |-> JNum(1)]),
      Goal(S("many"), JNum(1)),
      Goal(JNum(1), BigNum) }

GoalLists == UNION {[1..n -> GoalPool] : n \in 0..MaxGoals}

\* Single-goal requests over all pairs of values, multi-goal requests over
\* all goal lists, requests for both with a few pairs, requests whose
\* 'goals' is absent or not a list, with a mode the worker knows or not,
\* and a request of another type.
ProgressRequests ==
    { JObj([request_type |-> S("progress_goal")] @@ mode @@ current @@ target) :
        mode \in Optional("mode", {S("single")}),
        current \in Optional("current", ProgressValues),
        target \in Optional("target", ProgressValues) }
    \cup
    { JObj([request_type |-> S("progress_goal"), mode |-> S("multi"),
            goals |-> JList(goals)]) : goals \in GoalLists }
    \cup
    { JObj([request_type |-> S("progress_goal"), mode |-> S("both"),
            goals |-> JList(goals)] @@ pair) :
        goals \in GoalLists,
        pair \in { [current |-> JNum(1), target |-> JNum(3)],
                   [current |-> S("many"), target |-> JNum(3)],
                   [current |-> JNum(1)] } }
    \cup
    { JObj([request_type |-> S("progress_goal")] @@ mode @@ goals @@ pair) :
        mode \in Optional("mode", {S("multi"), S("both"), S("all"), None}),
        goals \in Optional("goals", {S("many"), JObj([current |-> JNum(1),
                                                     target |-> JNum(3)])}),
        pair \in { <<>>, [current |-> JNum(1), target |-> JNum(3)] } }
    \cup
    { JObj([request_type |-> S("progress"), mode |-> S("single"),
            current |-> JNum(1), target |-> JNum(3)]) }

HandlerRequests(w) ==
    IF w = "activity" THEN ActivityRequests
    ELSE IF w = "trend" THEN TrendRequests
    ELSE ProgressRequests

InitHandler ==
    /\ h_worker \in HandlerWorkers
    /\ h_pc = "received"
    /\ h_request \in HandlerRequests(h_worker)
    /\ h_reply = NoResult
    /\ h_prev = NoResult
    /\ s_pc = "off"
    /\ s_payload = None
    /\ s_today \in {ToOrdinal(2024, 1, 2)}
    /\ s_response = NoResult
    /\ s_current = NoResult
    /\ s_longest = NoResult
    /\ s_prev = NoResult
    /\ ServeUnused
    /\ ClientUnused

\* handle_message of the activity or the trend worker runs on the request
\* in hand.
HandlerProcess ==
    /\ h_worker # "progress"
    /\ h_pc = "received"
    /\ h_pc' = "replied"
    /\ h_reply' = handle_message(h_worker, JsonMsg(h_request))
    /\ UNCHANGED <<h_worker, h_request, h_prev, streakVars, serveVars, clientVars>>

\* The progress worker's handle_message up to the return of
\* validate_request: a validation error is the reply, otherwise the
\* handler goes on to the computing parts.
ProgressValidate ==
    /\ h_worker = "progress"
    /\ h_pc = "received"
    /\ LET v == progress_validate_request(h_request)
       IN  IF IsRaise(v)
           THEN h_pc' = "replied" /\ h_reply' = v
           ELSE IF v.val[5] # None
           THEN h_pc' = "replied" /\ h_reply' = Ret(v.val[5])
           ELSE h_pc' = "validated" /\ h_reply' = h_reply
    /\ UNCHANGED <<h_worker, h_request, h_prev, streakVars, serveVars, clientVars>>

\* The rest of the progress worker's handle_message: compute_single_goal
\* and compute_multi_goals, the only callers of compute_progress, and
\* make_success_response.
ProgressCompute ==
    /\ h_worker = "progress"
    /\ h_pc = "validated"
    /\ LET v == progress_validate_request(h_request)
       IN  h_reply' = ProgressSinglePart(v.val[1], v.val[2], v.val[3], v.val[4])
    /\ h_pc' = "replied"
    /\ UNCHANGED <<h_worker, h_request, h_prev, streakVars, serveVars, clientVars>>

\* The client sends its longest_run request again with two neighbours of
\* 'items' exchanged.
ActivityResendReordered ==
    /\ h_worker = "activity"
    /\ h_pc = "replied"
    /\ Get(h_request, "mode") = S("longest_run")
    /\ Get(h_request, "items").t = "list"
    /\ h_prev = NoResult
    /\ \E i \in 1..(Len(h_request.o["items"].v) - 1) :
          /\ h_request.o["items"].v[i] # h_request.o["items"].v[i + 1]
          /\ h_request' = JObj([h_request.o EXCEPT !["items"] = JList(Swap(@.v, i))])
    /\ h_prev' = h_reply
    /\ h_reply' = NoResult
    /\ h_pc' = "received"
    /\ UNCHANGED <<h_worker, streakVars, serveVars, clientVars>>

\* The client asks the trend worker to bucket by week the items it had
\* bucketed by day.
TrendResendByWeek ==
    /\ h_worker = "trend"
    /\ h_pc = "replied"
    /\ h_prev = NoResult
    /\ "bucket_type" \in DOMAIN h_request.o
    /\ h_request.o["bucket_type"] = S("day")
    /\ h_request' = JObj([h_request.o EXCEPT !["bucket_type"] = S("week")])
    /\ h_prev' = h_reply
    /\ h_reply' = NoResult
    /\ h_pc' = "received"
    /\ UNCHANGED <<h_worker, streakVars, serveVars, clientVars>>

\* What the client may put under 'id' and 'label' of every goal when it
\* sends a request again: nothing, or a null id and a numeric label.
Relabellings == { <<>>, [id |-> None, label |-> JNum(9)] }

\* goal with its id and label replaced by those of tags.
Relabelled(goal, tags) ==
    JObj(tags @@ [k \in DOMAIN goal.o \ {"id", "label"} |-> goal.o[k]])

\* The client sends its goals again with other ids and labels, or none.
ProgressResendRelabelled ==
    /\ h_worker = "progress"
    /\ h_pc = "replied"
    /\ h_prev = NoResult
    /\ Get(h_request, "goals").t = "list"
    /\ \E tags \in Relabellings :
          LET goals == h_request.o["goals"].v
              relabelled == [i \in DOMAIN goals |-> Relabelled(goals[i], tags)]
          IN  /\ relabelled # goals
              /\ h_request' = JObj([h_request.o EXCEPT !["goals"] = JList(relabelled)])
    /\ h_prev' = h_reply
    /\ h_reply' = NoResult
    /\ h_pc' = "received"
    /\ UNCHANGED <<h_worker, streakVars, serveVars, clientVars>>

NextHandler ==
    \/ HandlerProcess
    \/ ProgressValidate
    \/ ProgressCompute
    \/ ProgressResendRelabelled
    \/ ActivityResendReordered
    \/ TrendResendByWeek

SpecHandler == InitHandler /\ [][NextHandler]_vars

\* ------------------------------------------------ activity worker: claims

HandlerReplied(w) == h_worker = w /\ h_pc = "replied"

\* The handler returned a reply with status ok.
ReplyOk(r) == ~IsRaise(r) /\ r.val.status = "ok"

\* The handler returned a reply with status error.
ReplyError(r) == ~IsRaise(r) /\ r.val.status = "error"

RequestItems == h_request.o["items"].v

\* The request names the date field d and holds a list of items.
ItemsGiven == Get(h_request, "date_field") = S("d") /\ Get(h_request, "items").t = "list"

\* The mode the request asks for: 'both' when it names none.
RequestMode == GetOr(h_request, "mode", S("both"))

\* The positions of 'items' whose date field reads as a calendar day, and
\* the day at such a position.
DatedItems == {i \in DOMAIN RequestItems : parse_iso_date(Get(RequestItems[i], "d")) # None}
ItemDay(i) == parse_iso_date(Get(RequestItems[i], "d")).v
ItemDays == {ItemDay(i) : i \in DatedItems}

\* The first day of the earliest largest run of consecutive days.
EarliestLargestRunStart(days) ==
    CHOOSE a \in days :
        /\ RunIn(days, a, a + LargestRun(days) - 1)
        /\ \A b \in days : RunIn(days, b, b + LargestRun(days) - 1) => a <= b

\* The reply in hand is an activity success reply whose longest_run was
\* computed from the items.
LongestRunReported ==
    /\ HandlerReplied("activity")
    /\ RequestMode \in {S("longest_run"), S("both")}
    /\ ReplyOk(h_reply)

\* C11: activity longest_run is the largest run of consecutive days among
\* the de-duplicated valid item dates, the earliest such run when several
\* are largest, and the same run when the items come in another order.
C11_LongestRunEarliestLargest ==
    /\ (HandlerReplied("activity") /\ RequestMode = S("longest_run") /\ ItemsGiven) =>
          ReplyOk(h_reply)
    /\ LongestRunReported =>
        /\ h_reply.val.longest_run =
              IF ItemDays = {} THEN EmptyRun
              ELSE LET start == EarliestLargestRunStart(ItemDays)
                   IN  [length_days |-> LargestRun(ItemDays),
                        start_date |-> JStr(IsoFormat(start)),
                        end_date |-> JStr(IsoFormat(start + LargestRun(ItemDays) - 1))]
        /\ h_prev # NoResult =>
              /\ ReplyOk(h_prev)
              /\ h_prev.val.longest_run = h_reply.val.longest_run

\* Two runs of one day each, the later one first in the request, which was
\* sent in both orders.
C11_Witness ==
    /\ HandlerReplied("activity")
    /\ RequestMode = S("longest_run")
    /\ h_prev # NoResult
    /\ ItemDays = {ToOrdinal(2024, 3, 1), ToOrdinal(2024, 3, 3)}
    /\ ItemDay(1) = ToOrdinal(2024, 3, 3)
    /\ h_reply.val.longest_run.length_days = 1
    /\ h_reply.val.longest_run.start_date = D(2024, 3, 1)

\* C30: the longest_run of every activity success reply is consistent in
\* itself: length_days is 0 exactly when start_date and end_date are both
\* null, which is exactly when no item has a readable date or the mode
\* leaves longest_run out; otherwise every day from start_date to end_date
\* is among the item days, end_date is start_date + (length_days - 1) days,
\* and neither the day before start_date nor the day after end_date is
\* among them.
C30_LongestRunConsistent ==
    (HandlerReplied("activity") /\ ReplyOk(h_reply)) =>
        LET run == h_reply.val.longest_run
        IN  /\ run.length_days \in Nat
            /\ (run.length_days = 0) = (run.start_date = None /\ run.end_date = None)
            /\ (run.start_date = None) = (run.end_date = None)
            /\ (run.length_days = 0) = (ItemDays = {} \/ RequestMode = S("heatmap"))
            /\ run.length_days # 0 =>
                  LET start == parse_iso_date(run.start_date)
                      end == parse_iso_date(run.end_date)
                  IN  /\ start # None
                      /\ end # None
                      /\ end.v = start.v + (run.length_days - 1)
                      /\ (start.v)..(end.v) \subseteq ItemDays
                      /\ (start.v - 1) \notin ItemDays
                      /\ (end.v + 1) \notin ItemDays

\* A run of two days after a day on its own.
C30_Witness ==
    /\ HandlerReplied("activity")
    /\ ReplyOk(h_reply)
    /\ RequestMode = S("both")
    /\ Cardinality(ItemDays) = 3
    /\ h_reply.val.longest_run.length_days = 2
    /\ h_reply.val.longest_run.end_date # h_reply.val.longest_run.start_date

\* C12: length_days of the activity worker equals calculate_longest_streak
\* of the streak worker on the same set of days, in whatever order that
\* set is iterated.
C12_LengthEqualsLongestStreak ==
    LongestRunReported =>
        \A order \in Orders(ItemDays) :
            calculate_longest_streak(SortedSeq(ItemDays), order)
                = Ret(h_reply.val.longest_run.length_days)

\* The request asks for a heatmap.
HeatmapAsked == RequestMode \in {S("heatmap"), S("both")}

\* The window of the request, as calendar days, when both ends parse.
RangeStart == parse_iso_date(Get(h_request, "range_start"))
RangeEnd == parse_iso_date(Get(h_request, "range_end"))
RangeValid == RangeStart # None /\ RangeEnd # None /\ RangeStart.v <= RangeEnd.v

\* C13: for a valid window the heatmap has exactly the days of
\* [range_start, range_end] as keys, each with the number of items dated
\* that day; items outside the window or without a readable date change
\* nothing and cause no error.
C13_HeatmapCoversWindow ==
    (HandlerReplied("activity") /\ HeatmapAsked /\ RangeValid /\ ItemsGiven) =>
        /\ ReplyOk(h_reply)
        /\ DOMAIN h_reply.val.heatmap = {IsoFormat(day) : day \in RangeStart.v..RangeEnd.v}
        /\ Cardinality(DOMAIN h_reply.val.heatmap) = RangeEnd.v - RangeStart.v + 1
        /\ \A day \in RangeStart.v..RangeEnd.v :
              h_reply.val.heatmap[IsoFormat(day)]
                  = Cardinality({i \in DatedItems : ItemDay(i) = day})

\* C14: with mode 'heatmap' or 'both' a window that is absent, unreadable
\* or reversed gets an error reply; with mode 'longest_run' the window is
\* not looked at and the reply is a success.
C14_RangeValidation ==
    HandlerReplied("activity") =>
        /\ (HeatmapAsked /\ ~RangeValid) =>
              /\ ReplyError(h_reply)
              /\ DOMAIN h_reply.val = {"status", "error"}
        /\ (RequestMode = S("longest_run") /\ ItemsGiven) => ReplyOk(h_reply)

\* Mode 'heatmap' with a window whose end is before its start, and items
\* in hand.
C14_Witness ==
    /\ HandlerReplied("activity")
    /\ RequestMode = S("heatmap")
    /\ RangeStart # None
    /\ RangeEnd # None
    /\ RangeEnd.v < RangeStart.v
    /\ Len(RequestItems) = 2
    /\ ReplyError(h_reply)

\* C15: a success reply has the same keys whatever the mode: the activity
\* reply has the zero longest_run under mode 'heatmap' and an empty
\* heatmap under 'longest_run'; the progress reply has a null single_goal
\* under mode 'multi' and an empty goals_summary under 'single'.
C15_StableSuccessSchema ==
    /\ (HandlerReplied("activity") /\ ReplyOk(h_reply)) =>
          /\ DOMAIN h_reply.val = {"status", "mode", "date_field", "longest_run", "heatmap"}
          /\ DOMAIN h_reply.val.longest_run = {"length_days", "start_date", "end_date"}
          /\ h_reply.val.mode = S("heatmap") => h_reply.val.longest_run = EmptyRun
          /\ h_reply.val.mode = S("longest_run") => h_reply.val.heatmap = <<>>
    /\ (HandlerReplied("progress") /\ ReplyOk(h_reply)) =>
          /\ DOMAIN h_reply.val = {"status", "mode", "single_goal", "goals_summary"}
          /\ h_reply.val.mode = S("multi") => h_reply.val.single_goal = None
          /\ h_reply.val.mode = S("single") => h_reply.val.goals_summary = <<>>

\* A multi-mode progress success with summaries and no single goal.
C15_Witness ==
    /\ HandlerReplied("progress")
    /\ ReplyOk(h_reply)
    /\ h_reply.val.mode = S("multi")
    /\ Len(h_reply.val.goals_summary) = 2
    /\ h_reply.val.single_goal = None

\* ------------------------------------------------ trend worker: claims

\* The trend request in hand is valid.
TrendValid ==
    /\ Get(h_request, "bucket_type") \in {S("day"), S("week"), S("month")}
    /\ ItemsGiven

\* The window a day lies in and the key that names it: the day, the week
\* from Monday to Sunday (day 1 of the calendar is a Monday), the month.
WindowOf(day, bucket_type) ==
    IF bucket_type = S("day") THEN <<day>>
    ELSE IF bucket_type = S("week") THEN <<(day - 1) \div 7>>
    ELSE <<YearOf(day), MonthOf(day)>>

WindowKey(day, bucket_type) ==
    IF bucket_type = S("day") THEN IsoFormat(day)
    ELSE IF bucket_type = S("week") THEN IsoFormat(7 * ((day - 1) \div 7) + 1)
    ELSE [fmt |-> "%Y-%m", y |-> YearOf(day), m |-> MonthOf(day)]

RECURSIVE SumOver(_, _)
SumOver(f, keys) ==
    IF keys = {} THEN 0
    ELSE LET k == CHOOSE x \in keys : TRUE
         IN  f[k] + SumOver(f, keys \ {k})

\* The sum of all counts of a bucket mapping.
Total(buckets) == SumOver(buckets, DOMAIN buckets)

\* buckets counts, under each key, the dated items with that key and has
\* no other key; items share a key exactly when they share a window.
CountsByWindow(buckets, dated, key_of, window_of) ==
    /\ DOMAIN buckets = {key_of[i] : i \in dated}
    /\ \A key \in DOMAIN buckets :
          /\ buckets[key] > 0
          /\ buckets[key] = Cardinality({i \in dated : key_of[i] = key})
    /\ \A i, j \in dated : (key_of[i] = key_of[j]) <=> (window_of[i] = window_of[j])
    /\ Total(buckets) = Cardinality(dated)

\* C16: buckets maps each key to the number of items dated in that
\* bucket, the key naming the day, the Monday of the week or the month;
\* two days share a key exactly when they share the window; undated items
\* are skipped, no count is 0 and the counts sum to the dated items.
C16_BucketsCountItems ==
    (HandlerReplied("trend") /\ TrendValid) =>
        /\ ReplyOk(h_reply)
        /\ CountsByWindow(h_reply.val.buckets, DatedItems,
              [i \in DatedItems |-> WindowKey(ItemDay(i), h_request.o["bucket_type"])],
              [i \in DatedItems |-> WindowOf(ItemDay(i), h_request.o["bucket_type"])])

\* By week: a Friday and the Sunday after it share the bucket of their
\* Monday, which lies in the month before; an undated item is skipped.
C16_Witness ==
    /\ HandlerReplied("trend")
    /\ Get(h_request, "bucket_type") = S("week")
    /\ ItemsGiven
    /\ Len(RequestItems) = 3
    /\ Cardinality(DatedItems) = 2
    /\ ReplyOk(h_reply)
    /\ DOMAIN h_reply.val.buckets = {IsoFormat(ToOrdinal(2024, 2, 26))}
    /\ h_reply.val.buckets[IsoFormat(ToOrdinal(2024, 2, 26))] = 2

\* The day count of a day, 0 when the day has no bucket.
DayCount(day_buckets, day) ==
    IF IsoFormat(day) \in DOMAIN day_buckets THEN day_buckets[IsoFormat(day)] ELSE 0

RECURSIVE SumDays(_, _, _)
SumDays(day_buckets, first, last) ==
    IF first > last THEN 0
    ELSE DayCount(day_buckets, first) + SumDays(day_buckets, first + 1, last)

\* C17: for the same items, the day counts of the seven days of a week
\* bucket sum to the count of that week bucket, and the day buckets and
\* the week buckets have the same total.
C17_DayCountsSumToWeek ==
    (/\ HandlerReplied("trend")
     /\ h_prev # NoResult
     /\ ReplyOk(h_prev)
     /\ ReplyOk(h_reply)) =>
        LET day_buckets == h_prev.val.buckets
            week_buckets == h_reply.val.buckets
        IN  /\ h_prev.val.bucket_type = S("day")
            /\ h_reply.val.bucket_type = S("week")
            /\ \A W \in DOMAIN week_buckets :
                  LET monday == ToOrdinal(W.y, W.m, W.d)
                      sunday == IF monday + 6 > MaxOrdinal THEN MaxOrdinal ELSE monday + 6
                  IN  SumDays(day_buckets, monday, sunday) = week_buckets[W]
            /\ Total(day_buckets) = Total(week_buckets)

\* Three dated items on three days, two of them in one week.
C17_Witness ==
    /\ HandlerReplied("trend")
    /\ h_prev # NoResult
    /\ ReplyOk(h_prev)
    /\ ReplyOk(h_reply)
    /\ Cardinality(DOMAIN h_prev.val.buckets) = 3
    /\ Cardinality(DOMAIN h_reply.val.buckets) = 2
    /\ Total(h_reply.val.buckets) = 3

\* ------------------------------------------------ progress worker: claims

\* The results of compute_progress a success reply carries: the single
\* goal when there is one, and every goal summary.
ProgressResults ==
    IF ~(HandlerReplied("progress") /\ ReplyOk(h_reply)) THEN {}
    ELSE {h_reply.val.goals_summary[i] : i \in DOMAIN h_reply.val.goals_summary}
         \cup (IF h_reply.val.single_goal = None THEN {} ELSE {h_reply.val.single_goal})

\* C18: with current >= 0 and target >= 0, percent_complete (here in
\* hundredths of a percent) lies in [0, 100], and for target 0 it is 100
\* when current >= target and 0 otherwise.
C18_PercentWithinBounds ==
    \A result \in ProgressResults :
        (result.current >= 0 /\ result.target >= 0) =>
            /\ result.percent_complete \in 0..10000
            /\ result.target = 0 =>
                  result.percent_complete = IF result.current >= result.target
                                            THEN 10000 ELSE 0

\* C19: status is 'completed' if current >= target, else 'not_started' if
\* current <= 0, else 'in_progress'; completed is true exactly for status
\* 'completed'; target 0 with current >= 0 gives 100 percent, completed.
C19_StatusByPriority ==
    \A result \in ProgressResults :
        /\ result.status = IF result.current >= result.target THEN "completed"
                           ELSE IF result.current <= 0 THEN "not_started"
                           ELSE "in_progress"
        /\ result.completed = (result.status = "completed")
        /\ (result.target = 0 /\ result.current >= 0) =>
              /\ result.percent_complete = 10000
              /\ result.status = "completed"

\* The goal current 0, target 0 (completed although nothing was done)
\* next to a goal in progress.
C19_Witness ==
    /\ HandlerReplied("progress")
    /\ ReplyOk(h_reply)
    /\ Len(h_reply.val.goals_summary) = 2
    /\ h_reply.val.goals_summary[1].status = "in_progress"
    /\ h_reply.val.goals_summary[2].current = 0
    /\ h_reply.val.goals_summary[2].target = 0
    /\ h_reply.val.goals_summary[2].status = "completed"

\* A value that is a number.
IsNumber(value) == value.t \in {"num", "bignum"}

\* A goal that lacks current or target, or holds a value that is no number.
MalformedGoal(goal) ==
    \/ ~IsNumber(Get(goal, "current"))
    \/ ~IsNumber(Get(goal, "target"))

RequestGoals == h_request.o["goals"].v

\* The request asks for goal summaries and its single-goal part, if any,
\* is in order.
MultiAsked ==
    /\ HandlerReplied("progress")
    /\ Get(h_request, "mode") \in {S("multi"), S("both")}
    /\ Get(h_request, "goals").t = "list"
    /\ Get(h_request, "mode") = S("both") =>
          IsNumber(Get(h_request, "current")) /\ IsNumber(Get(h_request, "target"))

\* C20: one malformed goal fails the whole request with an error reply
\* that names the index of the offending goal and carries no result;
\* without a malformed goal, goals_summary has one entry per goal, in
\* request order, each the summary that goal gets on its own.
C20_MultiGoalAllOrNothing ==
    MultiAsked =>
        IF \E i \in DOMAIN RequestGoals : MalformedGoal(RequestGoals[i])
        THEN /\ ReplyError(h_reply)
             /\ DOMAIN h_reply.val = {"status", "error"}
             /\ \E i \in DOMAIN RequestGoals :
                   /\ MalformedGoal(RequestGoals[i])
                   /\ h_reply.val.error[1] = "Goal at index "
                   /\ h_reply.val.error[2] = ToString(i - 1)
        ELSE /\ ReplyOk(h_reply)
             /\ Len(h_reply.val.goals_summary) = Len(RequestGoals)
             /\ \A i \in DOMAIN RequestGoals :
                   Ret(<<<<h_reply.val.goals_summary[i]>>, None>>)
                       = compute_multi_goals(<<RequestGoals[i]>>)

\* The mode of a progress request: 'single' when it names none.
ProgressMode == GetOr(h_request, "mode", S("single"))

\* The request breaks the structural rule of its mode.
BreaksModeRule ==
    \/ ProgressMode \notin {S("single"), S("multi"), S("both")}
    \/ /\ ProgressMode \in {S("single"), S("both")}
       /\ ~({"current", "target"} \subseteq DOMAIN h_request.o)
    \/ /\ ProgressMode \in {S("multi"), S("both")}
       /\ Get(h_request, "goals").t # "list"

\* The replies validate_request gives for a broken mode rule.
ModeRuleErrors ==
    { make_error_response(<<"Invalid 'mode'. Expected 'single', 'multi', or 'both'.">>),
      make_error_response(
          <<"'current' and 'target' are required for 'single' or 'both' modes.">>),
      make_error_response(<<"'goals' must be a list for 'multi' or 'both' modes.">>) }

\* C21: a progress request that breaks the rule of its mode (current and
\* target both present for 'single' and 'both', goals a list for 'multi'
\* and 'both', mode one of the three) never reaches the computing part
\* of the handler and is answered with an error; a request of the right
\* type that keeps the rule reaches the computing part and is not
\* answered with one of the structural errors, so 'multi' needs no
\* current or target and 'single' needs no goals.
C21_StructureCheckedBeforeComputing ==
    h_worker = "progress" =>
        /\ (h_pc = "validated") => ~BreaksModeRule
        /\ (h_pc = "replied" /\ BreaksModeRule) =>
              /\ ReplyError(h_reply)
              /\ DOMAIN h_reply.val = {"status", "error"}
        /\ (h_pc = "replied" /\ ~BreaksModeRule
              /\ Get(h_request, "request_type") = S("progress_goal")) =>
              h_reply \notin {Ret(e) : e \in ModeRuleErrors}

\* A request for both whose current and target are in order and whose
\* goals is not a list has been answered with the error about goals.
C21_Witness ==
    /\ HandlerReplied("progress")
    /\ ProgressMode = S("both")
    /\ {"current", "target"} \subseteq DOMAIN h_request.o
    /\ Get(h_request, "goals") = S("many")
    /\ h_reply = Ret(make_error_response(
                         <<"'goals' must be a list for 'multi' or 'both' modes.">>))

\* A reply without the id and label of its goal summaries.
Unlabelled(r) ==
    IF ~ReplyOk(r) THEN r
    ELSE Ret([r.val EXCEPT !.goals_summary =
                 [i \in DOMAIN @ |-> [k \in DOMAIN @[i] \ {"id", "label"} |-> @[i][k]]]])

\* C22: in a multi-goal reply the summary at index i has an 'id' exactly
\* when goal i of the request has one, and a 'label' exactly when goal i
\* has one, each with the value of the request; a request sent again
\* with other ids and labels, or with none, gets the same reply apart
\* from the ids and labels.
C22_IdLabelPassThrough ==
    (HandlerReplied("progress") /\ Get(h_request, "goals").t = "list") =>
        /\ ReplyOk(h_reply) =>
              \A i \in DOMAIN h_reply.val.goals_summary :
                  \A k \in {"id", "label"} :
                      /\ k \in DOMAIN h_reply.val.goals_summary[i]
                            <=> k \in DOMAIN RequestGoals[i].o
                      /\ k \in DOMAIN RequestGoals[i].o =>
                            h_reply.val.goals_summary[i][k] = RequestGoals[i].o[k]
        /\ h_prev # NoResult => Unlabelled(h_reply) = Unlabelled(h_prev)

\* Goals answered a second time, now with a null id and a numeric label
\* on a goal that had neither, both echoed.
C22_Witness ==
    /\ HandlerReplied("progress")
    /\ h_prev # NoResult
    /\ ReplyOk(h_prev) /\ ReplyOk(h_reply)
    /\ Len(h_reply.val.goals_summary) = 2
    /\ DOMAIN h_prev.val.goals_summary[1] \cap {"id", "label"} = {}
    /\ {"id", "label"} \subseteq DOMAIN h_reply.val.goals_summary[1]
    /\ h_reply.val.goals_summary[1].id = None
    /\ h_reply.val.goals_summary[1].label = JNum(9)
    /\ "id" \in DOMAIN h_prev.val.goals_summary[2]
    /\ h_prev.val.goals_summary[2].id = JNum(7)

\* ------------------------------------------------ all handlers: claims

\* The request in hand names no date_field.
LacksDateField == "date_field" \notin DOMAIN h_request.o

\* The error reply that names date_field.
DateFieldError == make_error_response(<<"'date_field' must be a non-empty string.">>)

\* The request has the type the worker serves.
RightType ==
    Get(h_request, "request_type") =
        IF h_worker = "activity" THEN S("activity_analyzer")
        ELSE IF h_worker = "trend" THEN S("time_series_trend")
        ELSE S("progress_goal")

\* C23 as stated: whichever worker receives it, a request of that
\* worker's type without date_field is answered with an error that names
\* date_field.
C23_MissingDateFieldAnyWorker ==
    (h_pc = "replied" /\ RightType /\ LacksDateField) => h_reply = Ret(DateFieldError)

\* The request passes the tests validate_request makes before it looks
\* at date_field: the type, and the mode or the bucket type.
PassesEarlierTests ==
    /\ RightType
    /\ h_worker = "activity" =>
          GetOr(h_request, "mode", S("both")) \in {S("longest_run"), S("heatmap"), S("both")}
    /\ h_worker = "trend" =>
          Get(h_request, "bucket_type") \in {S("day"), S("week"), S("month")}

\* C23, amended: the activity and the trend worker answer a request
\* without date_field that passes the earlier tests with the error that
\* names date_field, whatever else the request holds or lacks.
C23_MissingDateFieldNamed ==
    (h_worker \in {"activity", "trend"} /\ h_pc = "replied"
        /\ PassesEarlierTests /\ LacksDateField) =>
        h_reply = Ret(DateFieldError)

\* A weekly trend request with neither date_field nor items, answered.
C23_Witness ==
    /\ HandlerReplied("trend")
    /\ DOMAIN h_request.o = {"request_type", "bucket_type"}
    /\ h_request.o["bucket_type"] = S("week")
    /\ h_reply = Ret(DateFieldError)

\* ================================================================
\* The client: microservice_clients
\* ================================================================

\* Functions the application calls in one run.
MaxCalls == 3

DEFAULT_PORTS == [streaks |-> 5555, trend |-> 5560, activity |-> 5562, progress |-> 5564]

\* The functions of the module the application may call.
ClientEntries == {"gather", "streaks", "progress", "activity", "trend"}

\* The worker a function calls; gather_microservice_snapshot starts with
\* progress_overview.
TargetOf(entry) == IF entry = "gather" THEN "progress" ELSE entry

\* The two messages of the except clauses of _send_json and _send_bytes.
TimedOut(port) == <<"Timed out contacting service on port ", ToString(port), ".">>
ServiceError(port) == <<"Service error on port ", ToString(port), ": ", "JSONDecodeError">>

\* What the client says instead of calling with nothing to send.
NothingToSend(target) ==
    IF target = "streaks" THEN <<"No completions yet.">>
    ELSE <<"No completion history yet.">>

\* A body that is not JSON.
Garbage == [t |-> "garbage"]

\* Bodies a worker may send back: a result, a structured error, and
\* bytes that are no JSON.
ReplyBodies(target) ==
    IF target = "streaks"
    THEN { [ok |-> TRUE, result |-> [current_streak |-> 1, longest_streak |-> 2]],
           _error("No valid dates provided."),
           Garbage }
    ELSE IF target = "progress"
    THEN { progress_make_success_response(S("both"), compute_progress(1, 2), <<>>),
           make_error_response(<<"Invalid 'current' value: ">>),
           Garbage }
    ELSE IF target = "activity"
    THEN { activity_make_success_response(S("both"), S("completed_on"), EmptyRun, <<>>),
           make_error_response(<<"'range_end' must be on or after 'range_start'.">>),
           Garbage }
    ELSE { trend_make_success_response(S("week"), S("completed_on"), <<>>),
           InternalError("OverflowError"),
           Garbage }

\* response.get("error", default) of the *_overview functions.
ErrorOf(response, default) ==
    IF "error" \in DOMAIN response THEN response.error ELSE default

\* What streaks_for_dates makes of the pair _send_json returned.
streaks_for_dates(result) ==
    IF result[2] # None THEN <<None, result[2]>>
    ELSE IF ~("ok" \in DOMAIN result[1] /\ result[1].ok = TRUE)
    THEN <<None, ErrorOf(result[1], <<"Unknown streaks error.">>)>>
    ELSE <<(IF "result" \in DOMAIN result[1] THEN result[1].result ELSE <<>>), None>>

\* What progress_overview, activity_overview and trend_overview make of
\* the pair _send_bytes returned.
status_overview(target, result) ==
    IF result[2] # None THEN <<None, result[2]>>
    ELSE IF ~("status" \in DOMAIN result[1] /\ result[1].status = "ok")
    THEN <<None, ErrorOf(result[1], <<"Unknown ", target, " error.">>)>>
    ELSE <<result[1], None>>

Overview(target, result) ==
    IF target = "streaks" THEN streaks_for_dates(result)
    ELSE status_overview(target, result)

\* The snapshot gather_microservice_snapshot starts from.
EmptySnapshot ==
    [progress |-> [response |-> None, error |-> None],
     streaks |-> [entries |-> <<>>, error |-> None],
     activity |-> [response |-> None, error |-> None],
     trend |-> [response |-> None, error |-> None]]

\* The application is about to call entry.
ClientAt(entry, has_data, calls) ==
    /\ c_entry = entry
    /\ c_pc = "start"
    /\ c_has_data = has_data
    /\ c_socket = "none"
    /\ c_wire = <<>>
    /\ c_outcome = ""
    /\ c_result = <<>>
    /\ c_overview = <<>>
    /\ c_snapshot = IF entry = "gather" THEN EmptySnapshot ELSE <<>>
    /\ c_called = {}
    /\ c_raised = ""
    /\ c_calls = calls

\* progress_overview always sends; the other functions need date strings
\* or items.
InitClient ==
    /\ \E entry \in ClientEntries, has_data \in BOOLEAN :
          /\ entry \in {"gather", "progress"} => has_data
          /\ ClientAt(entry, has_data, 1)
    /\ s_pc = "off"
    /\ s_payload = None
    /\ s_today \in {ToOrdinal(2024, 1, 2)}
    /\ s_response = NoResult
    /\ s_current = NoResult
    /\ s_longest = NoResult
    /\ s_prev = NoResult
    /\ ServeUnused
    /\ HandlerUnused

\* 'if not date_strings' / 'if not items': the function returns without
\* a socket.
ClientNothingToSend ==
    /\ c_pc = "start"
    /\ ~c_has_data
    /\ c_overview' = <<None, NothingToSend(TargetOf(c_entry))>>
    /\ c_pc' = "done"
    /\ UNCHANGED <<c_entry, c_has_data, c_socket, c_wire, c_outcome, c_result,
                   c_snapshot, c_called, c_raised, c_calls,
                   streakVars, serveVars, handlerVars>>

\* _make_socket: a REQ socket with send and receive timeouts, connected.
ClientMakeSocket ==
    /\ c_pc = "start"
    /\ c_has_data
    /\ c_socket' = "open"
    /\ c_pc' = "socket"
    /\ c_called' = c_called \cup {TargetOf(c_entry)}
    /\ UNCHANGED <<c_entry, c_has_data, c_wire, c_outcome, c_result, c_overview,
                   c_snapshot, c_raised, c_calls,
                   streakVars, serveVars, handlerVars>>

\* socket.send_json / socket.send_string hands the request over.
ClientSend ==
    /\ c_pc = "socket"
    /\ c_wire' = Append(c_wire, <<"send", TargetOf(c_entry)>>)
    /\ c_pc' = "sent"
    /\ UNCHANGED <<c_entry, c_has_data, c_socket, c_outcome, c_result, c_overview,
                   c_snapshot, c_called, c_raised, c_calls,
                   streakVars, serveVars, handlerVars>>

\* No worker takes the request within SNDTIMEO: zmq.error.Again.
ClientSendTimeout ==
    /\ c_pc = "socket"
    /\ c_outcome' = "timeout"
    /\ c_result' = <<None, TimedOut(DEFAULT_PORTS[TargetOf(c_entry)])>>
    /\ c_pc' = "finally"
    /\ UNCHANGED <<c_entry, c_has_data, c_socket, c_wire, c_overview,
                   c_snapshot, c_called, c_raised, c_calls,
                   streakVars, serveVars, handlerVars>>

\* socket.recv_json / socket.recv and json.loads: a reply arrives in
\* time; bytes that are no JSON raise inside the try.
ClientRecv ==
    /\ c_pc = "sent"
    /\ \E body \in ReplyBodies(TargetOf(c_entry)) :
          /\ c_wire' = Append(c_wire, <<"recv", body>>)
          /\ c_result' = IF body = Garbage
                         THEN <<None, ServiceError(DEFAULT_PORTS[TargetOf(c_entry)])>>
                         ELSE <<body, None>>
    /\ c_outcome' = "reply"
    /\ c_pc' = "finally"
    /\ UNCHANGED <<c_entry, c_has_data, c_socket, c_overview,
                   c_snapshot, c_called, c_raised, c_calls,
                   streakVars, serveVars, handlerVars>>

\* _send_* sending the request again when no reply came.
ClientRecvTimeoutResend ==
    /\ c_pc = "sent"
    /\ Len(c_wire) < 3
    /\ c_outcome' = "timeout"
    /\ c_result' = <<None, TimedOut(DEFAULT_PORTS[TargetOf(c_entry)])>>
    /\ c_pc' = "socket"
    /\ UNCHANGED <<c_entry, c_has_data, c_socket, c_wire, c_overview,
                   c_snapshot, c_called, c_raised, c_calls,
                   streakVars, serveVars, handlerVars>>

\* No reply within RCVTIMEO: zmq.error.Again.
ClientRecvTimeout ==
    /\ c_pc = "sent"
    /\ c_outcome' = "timeout"
    /\ c_result' = <<None, TimedOut(DEFAULT_PORTS[TargetOf(c_entry)])>>
    /\ c_pc' = "finally"
    /\ UNCHANGED <<c_entry, c_has_data, c_socket, c_wire, c_overview,
                   c_snapshot, c_called, c_raised, c_calls,
                   streakVars, serveVars, handlerVars>>

\* 'finally: socket.close()', then _send_* returns.
ClientClose ==
    /\ c_pc = "finally"
    /\ c_socket' = "closed"
    /\ c_pc' = "returned"
    /\ UNCHANGED <<c_entry, c_has_data, c_wire, c_outcome, c_result, c_overview,
                   c_snapshot, c_called, c_raised, c_calls,
                   streakVars, serveVars, handlerVars>>

\* The function that called _send_* returns its pair; inside
\* gather_microservice_snapshot the pair goes into the progress slot.
ClientOverviewReturn ==
    /\ c_pc = "returned"
    /\ c_overview' = Overview(TargetOf(c_entry), c_result)
    /\ IF c_entry = "gather"
       THEN /\ c_snapshot' = [c_snapshot EXCEPT !.progress =
                                 [response |-> c_overview'[1], error |-> c_overview'[2]]]
            /\ c_pc' = "gather_streaks"
       ELSE /\ c_snapshot' = c_snapshot
            /\ c_pc' = "done"
    /\ UNCHANGED <<c_entry, c_has_data, c_socket, c_wire, c_outcome, c_result,
                   c_called, c_raised, c_calls,
                   streakVars, serveVars, handlerVars>>

\* gather_microservice_snapshot, 'repo.completion_dates_by_habit()':
\* JSONRepo has no such method, the attribute lookup raises and the
\* function ends there.  The code after this line never runs.
GatherDatesByHabit ==
    /\ c_entry = "gather"
    /\ c_pc = "gather_streaks"
    /\ c_raised' = "AttributeError"
    /\ c_pc' = "raised"
    /\ UNCHANGED <<c_entry, c_has_data, c_socket, c_wire, c_outcome, c_result,
                   c_overview, c_snapshot, c_called, c_calls,
                   streakVars, serveVars, handlerVars>>

\* The application calls another function of the module.
ClientNextCall ==
    /\ c_pc \in {"done", "raised"}
    /\ c_calls < MaxCalls
    /\ \E entry \in ClientEntries, has_data \in BOOLEAN :
          /\ entry \in {"gather", "progress"} => has_data
          /\ c_entry' = entry
          /\ c_has_data' = has_data
          /\ c_snapshot' = IF entry = "gather" THEN EmptySnapshot ELSE <<>>
    /\ c_pc' = "start"
    /\ c_socket' = "none"
    /\ c_wire' = <<>>
    /\ c_outcome' = ""
    /\ c_result' = <<>>
    /\ c_overview' = <<>>
    /\ c_called' = {}
    /\ c_raised' = ""
    /\ c_calls' = c_calls + 1
    /\ UNCHANGED <<streakVars, serveVars, handlerVars>>

NextClient ==
    \/ ClientNothingToSend
    \/ ClientMakeSocket
    \/ ClientSend
    \/ ClientSendTimeout
    \/ ClientRecv
    \/ ClientRecvTimeout
    \/ ClientClose
    \/ ClientOverviewReturn
    \/ GatherDatesByHabit
    \/ ClientNextCall

SpecClient == InitClient /\ [][NextClient]_vars

\* ------------------------------------------------------ client: claims

\* _send_json / _send_bytes has returned to its caller.
SendReturned == c_pc \in {"returned", "gather_streaks", "done", "raised"} /\ c_has_data

ClientPort == DEFAULT_PORTS[TargetOf(c_entry)]

\* The reply the socket received is a worker's structured error.
GotErrorReply ==
    /\ Len(c_wire) = 2
    /\ c_wire[2][2] # Garbage
    /\ IF TargetOf(c_entry) = "streaks" THEN c_wire[2][2].ok = FALSE
       ELSE c_wire[2][2].status = "error"

\* C24: a call sends its request at most once and receives at most one
\* reply, after the send; when the send or the receive times out the call
\* returns no response and the 'Timed out contacting service' error, and
\* nothing is sent again; a worker's structured error reply comes back as
\* a response with no error, so the two are told apart; the socket is
\* open only between _make_socket and the finally clause, and closed once
\* the call has returned, whatever happened.
C24_OneSendOneReplyClosed ==
    /\ c_wire = <<>>
       \/ c_wire = <<<<"send", TargetOf(c_entry)>>>>
       \/ /\ Len(c_wire) = 2
          /\ c_wire[1] = <<"send", TargetOf(c_entry)>>
          /\ c_wire[2][1] = "recv"
    /\ c_socket = "open" <=> c_pc \in {"socket", "sent", "finally"}
    /\ SendReturned => c_socket = "closed"
    /\ (SendReturned /\ c_outcome = "timeout") =>
          /\ c_result = <<None, TimedOut(ClientPort)>>
          /\ Len(c_wire) <= 1
    /\ (SendReturned /\ GotErrorReply) =>
          /\ c_result = <<c_wire[2][2], None>>
          /\ c_pc # "returned" =>
                /\ c_overview[1] = None
                /\ c_overview[2] = c_wire[2][2].error

\* A request went out, no reply came in time, and the call has returned
\* with its socket closed.
C24_Witness ==
    /\ c_pc = "returned"
    /\ c_outcome = "timeout"
    /\ c_wire = <<<<"send", "trend">>>>
    /\ c_socket = "closed"
    /\ c_result = <<None, TimedOut(5560)>>

\* The workers a gather_microservice_snapshot that has ended should have
\* called, or passed over for lack of data.
FanOutWorkers == {"progress", "streaks", "activity", "trend"}

\* C25: whatever the progress worker did (reply, error reply, timeout),
\* gather_microservice_snapshot returns its snapshot, with the outcome of
\* the progress call in the progress slot only, after going on to the
\* streak, activity and trend workers.
C25_FanOutIsolatesFailures ==
    (c_entry = "gather" /\ c_pc \in {"done", "raised"}) =>
        /\ c_raised = ""
        /\ c_snapshot.progress = [response |-> c_overview[1], error |-> c_overview[2]]
        /\ c_called = FanOutWorkers

\* ================================================================
\* Serialisation of replies
\* ================================================================

\* Values as json.dumps walks them: a scalar, a list, a dict with its
\* members in insertion order (keys are names, or date strings in the
\* dicts 'buckets' and 'heatmap').
Lit(x) == [t |-> "lit", v |-> x]
Array(items) == [t |-> "array", v |-> items]
Dict(members) == [t |-> "dict", m |-> members]
DateDict(members) == [t |-> "datedict", m |-> members]

\* The key names of the replies in the order of str comparison.
SortedKeyNames ==
    << "bucket_type", "buckets", "completed", "current", "current_streak",
       "date_field", "end_date", "error", "goals_summary", "heatmap", "id",
       "label", "length_days", "longest_run", "longest_streak", "message",
       "mode", "ok", "percent_complete", "result", "single_goal",
       "start_date", "status", "target" >>

\* Where a key stands under str comparison: names by SortedKeyNames,
\* zero-padded date strings by year, month and day.
KeyRank(kind, key) ==
    IF kind = "dict"
    THEN CHOOSE i \in DOMAIN SortedKeyNames : SortedKeyNames[i] = key
    ELSE key.y * 10000 + key.m * 100 + (IF "d" \in DOMAIN key THEN key.d ELSE 0)

\* sorted(dict.items()) of json.dumps under sort_keys=True.
SortMembers(v) ==
    LET ranks == SortedSeq({KeyRank(v.t, v.m[i][1]) : i \in DOMAIN v.m})
    IN  [j \in DOMAIN ranks |->
            v.m[CHOOSE i \in DOMAIN v.m : KeyRank(v.t, v.m[i][1]) = ranks[j]]]

\* The two pairs of separators: (',', ':') and json's default (', ', ': ').
CompactSeparators == <<",", ":">>
DefaultSeparators == <<", ", ": ">>

\* json.dumps(v, sort_keys=..., separators=...): the text, as the
\* sequence of its members with the separators written between them.
RECURSIVE json_dumps(_, _, _)
json_dumps(v, sort_keys, separators) ==
    IF v.t = "lit" THEN v
    ELSE IF v.t = "array"
    THEN [t |-> "[]",
          item_sep |-> IF Len(v.v) > 1 THEN separators[1] ELSE "",
          items |-> [i \in DOMAIN v.v |-> json_dumps(v.v[i], sort_keys, separators)]]
    ELSE LET members == IF sort_keys THEN SortMembers(v) ELSE v.m
         IN  [t |-> "{}",
              item_sep |-> IF Len(members) > 1 THEN separators[1] ELSE "",
              key_sep |-> IF Len(members) > 0 THEN separators[2] ELSE "",
              members |-> [i \in DOMAIN members |->
                              <<members[i][1],
                                json_dumps(members[i][2], sort_keys, separators)>>]]

\* serialize_response of the activity, trend and progress workers.
serialize_response(response_dict) == json_dumps(response_dict, TRUE, CompactSeparators)

\* socket.send_json(response) of the streak worker: json.dumps with no
\* sort_keys; the separators are those of the installed pyzmq (compact in
\* older releases, json's default in newer ones).
PyzmqSeparators == {CompactSeparators, DefaultSeparators}
send_json(response, separators) == json_dumps(response, FALSE, separators)

\* The order in which the dict literals of the workers list their keys.
LiteralKeys ==
    << "ok", "result", "current_streak", "longest_streak",
       "current", "target", "percent_complete", "completed", "status", "id", "label",
       "mode", "bucket_type", "date_field", "longest_run", "heatmap", "buckets",
       "single_goal", "goals_summary", "error", "message",
       "length_days", "start_date", "end_date" >>

\* The keys of rec in the order the code inserted them.
KeysAsBuilt(rec) == SelectSeq(LiteralKeys, LAMBDA k : k \in DOMAIN rec)

\* A dict of scalars as the code built it: longest_run, a goal result,
\* the streak result.
BuiltFlat(rec) ==
    LET keys == KeysAsBuilt(rec)
    IN  Dict([i \in DOMAIN keys |-> <<keys[i], Lit(rec[keys[i]])>>])

\* A dict keyed by date strings, inserted in the order date_keys.
BuiltByDate(rec, date_keys) ==
    DateDict([i \in DOMAIN date_keys |-> <<date_keys[i], Lit(rec[date_keys[i]])>>])

\* A reply dict as the code built it; date_keys is the insertion order
\* of its 'buckets' or 'heatmap'.
BuiltReply(response, date_keys) ==
    LET keys == KeysAsBuilt(response)
        built(k) ==
            IF k \in {"buckets", "heatmap"} THEN BuiltByDate(response[k], date_keys)
            ELSE IF k \in {"longest_run", "result"} THEN BuiltFlat(response[k])
            ELSE IF k = "single_goal"
            THEN (IF response[k] = None THEN Lit(None) ELSE BuiltFlat(response[k]))
            ELSE IF k = "goals_summary"
            THEN Array([i \in DOMAIN response[k] |-> BuiltFlat(response[k][i])])
            ELSE Lit(response[k])
    IN  Dict([i \in DOMAIN keys |-> <<keys[i], built(keys[i])>>])

\* compute_time_buckets: the bucket keys in the order the loop over
\* items first met them.
RECURSIVE BucketKeysLoop(_, _, _, _, _)
BucketKeysLoop(items, date_field, bucket_type, i, keys) ==
    IF i > Len(items) THEN keys
    ELSE LET d == parse_iso_date(Get(items[i], date_field))
         IN  IF d = None
             THEN BucketKeysLoop(items, date_field, bucket_type, i + 1, keys)
             ELSE LET key == get_bucket_key(d.v, bucket_type).v
                  IN  BucketKeysLoop(items, date_field, bucket_type, i + 1,
                          IF key \in Range(keys) THEN keys ELSE Append(keys, key))

\* compute_heatmap: the days of the window, first to last.
HeatmapKeys(heatmap) ==
    LET ranks == SortedSeq({KeyRank("datedict", k) : k \in DOMAIN heatmap})
    IN  [j \in DOMAIN ranks |->
            CHOOSE k \in DOMAIN heatmap : KeyRank("datedict", k) = ranks[j]]

\* The bytes the worker w sends for request when handle_message returned
\* response.
ReplyBytes(w, request, response) ==
    serialize_response(
        BuiltReply(response,
            IF "buckets" \in DOMAIN response
            THEN BucketKeysLoop(request.o["items"].v, Get(request, "date_field").v.s,
                                request.o["bucket_type"], 1, <<>>)
            ELSE IF "heatmap" \in DOMAIN response THEN HeatmapKeys(response.heatmap)
            ELSE <<>>))

\* ------------------------------------------------ serialisation: claims

\* The streak worker's reply goes out with its keys sorted and without
\* whitespace, whichever pyzmq is installed.
StreakBytesSortedCompact ==
    (s_pc = "replied" /\ ~IsRaise(s_response)) =>
        \A separators \in PyzmqSeparators :
            send_json(BuiltReply(s_response.val, <<>>), separators)
                = json_dumps(BuiltReply(s_response.val, <<>>), TRUE, CompactSeparators)

\* The request in hand with its items in the order perm.
ItemsPermuted(perm) ==
    JObj([h_request.o EXCEPT !["items"] = JList([i \in DOMAIN @.v |-> @.v[perm[i]]])])

\* The activity or trend worker's reply to the request in hand is, byte
\* for byte, its reply to the same request with the items in any other
\* order.
HandlerBytesOrderFree ==
    (h_worker \in {"activity", "trend"} /\ h_pc = "replied"
        /\ ~IsRaise(h_reply) /\ ItemsGiven) =>
        \A perm \in {f \in [DOMAIN RequestItems -> DOMAIN RequestItems] :
                        Range(f) = DOMAIN RequestItems} :
            LET other == ItemsPermuted(perm)
                response == handle_message(h_worker, JsonMsg(other))
            IN  /\ ~IsRaise(response)
                /\ ReplyBytes(h_worker, other, response.val)
                      = ReplyBytes(h_worker, h_request, h_reply.val)

\* C26: every worker sends its reply with the keys of every object
\* sorted and no whitespace between the tokens, so that equal replies are
\* equal byte for byte; requests that differ only in the order of their
\* items get the same bytes from the activity and the trend worker.
C26_RepliesByteIdentical ==
    /\ StreakBytesSortedCompact
    /\ HandlerBytesOrderFree


\* ================================================================
\* The streak and the trend worker's loops under scheduling
\* ================================================================

\* The streak worker's main thread takes its next step: every step of
\* serve_requests and run_service returns (socket.poll within its one-second
\* timeout, the others without waiting), so wherever the thread stands short
\* of the end, it moves on.
StreakLoopStep ==
    /\ worker = "streak"
    /\ pc # "closed"
    /\ pc' \in {"loop", "poll", "process", "send", "finally", "closed"} \ {pc}

InitStreakLoop == InitServe /\ worker = "streak"

NextStreakLoop ==
    \/ StreakLoopTest
    \/ StreakPollTimeout
    \/ StreakRecv
    \/ StreakProcessRequest
    \/ StreakSend
    \/ StreakShutdown
    \/ ShutdownListenerLine
    \/ ShutdownListenerEof

\* The main thread keeps running; the user at the console need not type.
SpecStreakLoop ==
    InitStreakLoop /\ [][NextStreakLoop]_vars /\ WF_pc(StreakLoopStep)

\* The trend worker's only thread takes its next step: socket.recv raises
\* zmq.Again after RCVTIMEO (200 ms) when nothing arrives,
\* keyboard_quit_pressed does not wait, and neither does any other step.
TrendLoopStep ==
    /\ worker = "trend"
    /\ pc # "closed"
    /\ pc' \in {"keyboard", "recv", "quitcheck", "handle", "send", "sendquit",
               "finally", "closed"} \ {pc}

InitTrendLoop == InitServe /\ worker = "trend"

NextTrendLoop ==
    \/ TrendKeyTyped
    \/ TrendKeyboardCheck
    \/ TrendRecvTimeout
    \/ TrendRecv
    \/ TrendQuitCheck
    \/ ServeHandle
    \/ ServeSend
    \/ TrendSendQuit
    \/ TrendClose

\* The thread keeps running; the user and the clients need not do anything.
SpecTrendLoop ==
    InitTrendLoop /\ [][NextTrendLoop]_vars /\ WF_pc(TrendLoopStep)

\* Every request in the log whose body decoded has its reply in the log.
DecodedAreReplied ==
    \A i \in DOMAIN log :
        (IsRecv(i) /\ ~IsRaise(JsonLoads(log[i].msg))) =>
            (i < Len(log) /\ IsSend(i + 1))

\* With the stop flag true the loop never starts another poll, so at most
\* the exchange of the poll under way is completed.
NoPollAfterStop ==
    [][stop_flag => (pc' = "poll" => pc = "poll")]_vars

\* With the stop flag true the worker ends with its socket closed and its
\* context terminated, whether or not a request arrives.
StopLeadsToShutdown ==
    stop_flag ~> (pc = "closed")

\* C27: once stop_flag[0] is true the streak worker's loop completes at most
\* one further receive-reply exchange and then ends, request or no request;
\* a request it had received is replied to before the loop exits, and the
\* socket is closed and the context terminated afterwards.
C27_StopFlagEndsLoop ==
    /\ NoPollAfterStop
    /\ StopLeadsToShutdown
    /\ []((stop_flag /\ pc \in {"finally", "closed"}) => DecodedAreReplied)

\* A 'q' typed into the terminal that keyboard_quit_pressed has not
\* returned yet.
QWaits ==
    \E i \in DOMAIN (kbd.stdin_buffer \o kbd.console) :
        CharsLower(<<(kbd.stdin_buffer \o kbd.console)[i]>>) = <<"q">>

\* A receive is attempted only straight after a keyboard check.
KeyboardCheckBeforeRecv ==
    [][pc' = "recv" => pc \in {"keyboard", "recv"}]_vars

\* A 'q' typed into the terminal ends the loop, request or no request.
QLeadsToExit ==
    QWaits ~> (pc \in {"finally", "closed"})

\* The keyboard quit leaves the loop with nothing received or sent since
\* the check, and nothing after it.
KeyboardQuitSilent ==
    [][(exit_cause' = "keyboard") => (log' = log /\ pc' \in {"finally", "closed"})]_vars

\* The keyboard is read only at the top of the loop, where no request is
\* waiting for its reply.
KeyboardCheckOutsideExchange ==
    /\ [][kbd'.stdin_buffer # kbd.stdin_buffer \/ Len(kbd'.console) < Len(kbd.console)
             => pc = "keyboard"]_vars
    /\ [](pc = "keyboard" => Len(log) % 2 = 0)

\* C28: the trend worker checks the keyboard before every receive attempt
\* and every attempt times out, so a 'q' pressed in its terminal ends the
\* loop even if no request arrives; the keyboard quit receives nothing more
\* and sends no reply, and the keyboard is never checked between receiving
\* a request and sending its reply.
C28_KeyboardQuit ==
    /\ KeyboardCheckBeforeRecv
    /\ QLeadsToExit
    /\ KeyboardQuitSilent
    /\ KeyboardCheckOutsideExchange

====
